---- MODULE Spec2Model ----
(***************************************************************************)
(* Verification model of the CRM platform's event processing substrate     *)
(* (shared_python.kafka_client), its reference handlers (audit,            *)
(* notification) and the multi-tenant visibility model (identity service   *)
(* users/companies, CRM customer queries).                                 *)
(*                                                                         *)
(* The module holds several state machines over one set of variables; each *)
(* specification drives one of them and leaves the others in their initial *)
(* state:                                                                  *)
(*   Spec          the consumer runtime (KafkaConsumer + DLQ producer)     *)
(*   SpecAudit     the audit handler and its store                         *)
(*   SpecNotif     the notification handler and its store                  *)
(*   SpecCrm       the customer read path (list and single fetch)          *)
(*   SpecIdentity  the company hierarchy and the users' visibility scope   *)
(*   SpecCancel    the consumer runtime with stop() called as a method     *)
(*   SpecRetry     one call of the retry controller, as a function         *)
(*   SpecMeter     the metrics lines of one consumer                       *)
(*   SpecScoped    the scoped reader of the shared library                 *)
(*   SpecWalk      the descendant traversal on a changing hierarchy        *)
(*   SpecMark      concurrent read marks on one notification               *)
(***************************************************************************)
EXTENDS Integers, Sequences, FiniteSets, Bags, TLC

None == "none"

(***************************************************************************)
(* Bounds of the model.                                                    *)
(***************************************************************************)
\* number of records in each partition's log
LogLen == 2
\* max_retries is a constructor argument; it is drawn from 0..MaxRetriesBound
MaxRetriesBound == 2
\* number of times a stopped consumer process is started again
MaxRestarts == 1

\* the partitions of the consumed topic assigned to the consumer
Partitions == {0}
Offsets == 0 .. (LogLen - 1)

\* the topic and group of the consumer under study (audit-service command)
Topic == "crm.customer.created"
GroupId == "audit-service-group"

\* KafkaConsumer.__init__ defaults
retry_backoff_base == 2
retry_backoff_max == 60

VARIABLES
    \* ---- consumer runtime ------------------------------------------------
    body,        \* broker log: body[p][o] is "json" or "malformed"
    max_retries, \* KafkaConsumer.max_retries
    committed,   \* broker: the group's committed offset of each partition
    position,    \* consumer handle: next offset to fetch of each partition
    running,     \* KafkaConsumer._running
    pc,          \* where the consumer process is
    cur,         \* record being processed: <<partition, offset>> or None
    attempt,     \* loop variable of _process_with_retry
    calls,       \* handler invocations made by the current controller call
    sleeps,      \* backoff sleeps performed by the current controller call
    metrics,     \* KafkaConsumer.metrics
    dlq_topic,   \* bag of the records acknowledged on <topic>.dlq.<group>
    hist,        \* per record: what has happened to it so far
    last,        \* outcome of the last finished loop iteration
    restarts,    \* number of restarts so far
    call,        \* the current or last call of _process_with_retry, observed
    stop_log,    \* what the calls of stop() on this consumer have done so far
    \* ---- audit service ---------------------------------------------------
    audit_store, \* bag of the AuditLog rows
    audit_inflight, \* events of the invocations between exists() and create()
    audit_last,  \* how the last finished invocation ended
    audit_ok,    \* keys of the events for which an invocation returned normally
    \* ---- notification service --------------------------------------------
    notif_store, \* bag of the Notification rows
    notif_last,  \* how the last invocation of the handler ended
    notif_count, \* number of deliveries so far
    \* ---- identity service ------------------------------------------------
    companies,   \* ids of the Company rows
    parent,      \* Company.parent of each id (NoCompany: null)
    ident_req,   \* the last call of User.get_visible_company_ids
    ident_scope, \* the last call of Company.get_visibility_scope
    ident_mut,   \* the last change of a company's parent
    \* ---- crm service -----------------------------------------------------
    customers,   \* the Customer rows
    crm_published, \* the events delivered to the topic crm.customer.created
    crm_req,     \* the last customers / customer query and its result
    \* ---- tokens ----------------------------------------------------------
    token_login, \* the last login: the user, the time and the token issued
    token_check, \* the last get_user_from_token: token, time and outcome
    \* ---- dead letter producer ----------------------------------------------
    dlq_req,\* the last call of send_to_dlq: arguments, produce requests, records
    \* ---- geocode worker ----------------------------------------------------
    geo_req,\* the last invocation of the geocode handler and what it did
    \* ---- internal coordinates endpoint -------------------------------------
    coord_req,\* the last request to the internal coordinates endpoint and its response
    \* ---- login -------------------------------------------------------------
    accounts, \* the User rows: per email the row, or NoAccount
    login_req,\* the last request to login_view and its response
    \* ---- notification schema -----------------------------------------------
    notifications, \* the Notification rows as the GraphQL schema reads them
    inbox_req,\* the last query or mutation of the notification schema and its result
    \* ---- retry controller as a function ------------------------------------
    retry_req, \* the last call of _process_with_retry on a fresh consumer and its result
    meter,\* a consumer observed over its calls: counters, metrics lines, calls of stop()
    \* ---- scoped manager ----------------------------------------------------
    scoped_req,\* the last call of VisibilityScopedManager.for_user and the rows it returned
    \* ---- descendant traversal ----------------------------------------------
    walk,\* a call of get_descendant_ids in progress: its queue and its result so far
    \* ---- concurrent read marks ---------------------------------------------
    mark_row, \* read_by_user_ids of one Notification row in the database
    mark_call \* per user, the call of markNotificationRead in progress and the calls finished

consumerVars == <<body, max_retries, committed, position, running, pc, cur,
                  attempt, calls, sleeps, metrics, dlq_topic, hist, last,
                  restarts, call, stop_log>>

auditVars == <<audit_store, audit_inflight, audit_last, audit_ok>>

notifVars == <<notif_store, notif_last, notif_count>>

identityVars == <<companies, parent, ident_req, ident_scope, ident_mut>>

crmVars == <<customers, crm_published, crm_req>>

tokenVars == <<token_login, token_check>>

dlqVars == <<dlq_req>>

geoVars == <<geo_req>>

coordVars == <<coord_req>>

loginVars == <<accounts, login_req>>

inboxVars == <<notifications, inbox_req>>

retryVars == <<retry_req, meter>>

scopedVars == <<scoped_req>>

walkVars == <<walk>>

markVars == <<mark_row, mark_call>>

vars == <<consumerVars, auditVars, notifVars, identityVars,
          crmVars, tokenVars, dlqVars, geoVars, coordVars, loginVars, inboxVars, retryVars, scopedVars, walkVars, markVars>>

\* the variables an action of one part leaves alone
notConsumer == <<auditVars, notifVars, identityVars, crmVars,
    tokenVars, dlqVars, geoVars, coordVars, loginVars, inboxVars, retryVars, scopedVars, walkVars, markVars>>
notAudit == <<consumerVars, notifVars, identityVars, crmVars,
    tokenVars, dlqVars, geoVars, coordVars, loginVars, inboxVars, retryVars, scopedVars, walkVars, markVars>>
notNotif == <<consumerVars, auditVars, identityVars, crmVars,
    tokenVars, dlqVars, geoVars, coordVars, loginVars, inboxVars, retryVars, scopedVars, walkVars, markVars>>
notIdentity == <<consumerVars, auditVars, notifVars, crmVars,
    tokenVars, dlqVars, geoVars, coordVars, loginVars, inboxVars, retryVars, scopedVars, walkVars, markVars>>
notCrm == <<consumerVars, auditVars, notifVars, identityVars,
    tokenVars, dlqVars, geoVars, coordVars, loginVars, inboxVars, retryVars, scopedVars, walkVars, markVars>>
notToken == <<consumerVars, auditVars, notifVars, identityVars,
    crmVars, dlqVars, geoVars, coordVars, loginVars, inboxVars, retryVars, scopedVars, walkVars, markVars>>
notDlq == <<consumerVars, auditVars, notifVars, identityVars,
    crmVars, tokenVars, geoVars, coordVars, loginVars, inboxVars, retryVars, scopedVars, walkVars, markVars>>
notGeo == <<consumerVars, auditVars, notifVars, identityVars,
    crmVars, tokenVars, dlqVars, coordVars, loginVars, inboxVars, retryVars, scopedVars, walkVars, markVars>>
\* the endpoint writes the Customer rows of the crm service
notCoord == <<consumerVars, auditVars, notifVars, identityVars,
    tokenVars, dlqVars, geoVars, crm_published, crm_req, loginVars, inboxVars, retryVars, scopedVars, walkVars, markVars>>
notLogin == <<consumerVars, auditVars, notifVars, identityVars,
    crmVars, tokenVars, dlqVars, geoVars, coordVars, inboxVars, retryVars, scopedVars, walkVars, markVars>>
notInbox == <<consumerVars, auditVars, notifVars, identityVars,
    crmVars, tokenVars, dlqVars, geoVars, coordVars, loginVars, retryVars, scopedVars, walkVars, markVars>>
notRetry == <<consumerVars, auditVars, notifVars, identityVars,
    crmVars, tokenVars, dlqVars, geoVars, coordVars, loginVars, inboxVars, scopedVars, walkVars, markVars>>
notScoped == <<consumerVars, auditVars, notifVars, identityVars,
    crmVars, tokenVars, dlqVars, geoVars, coordVars, loginVars, inboxVars, retryVars, walkVars, markVars>>
notWalk == <<consumerVars, auditVars, notifVars, identityVars,
    crmVars, tokenVars, dlqVars, geoVars, coordVars, loginVars, inboxVars, retryVars, scopedVars, markVars>>
notMark == <<consumerVars, auditVars, notifVars, identityVars,
    crmVars, tokenVars, dlqVars, geoVars, coordVars, loginVars, inboxVars, retryVars, scopedVars, walkVars>>

(***************************************************************************)
(* Consumer runtime: shared_python/kafka_client.py                         *)
(***************************************************************************)

ZeroMetrics ==
    [messages_processed_total |-> 0, messages_retried_total |-> 0,
     messages_failed_total |-> 0, messages_dlq_total |-> 0]

\* no loop iteration has finished yet
NoLast == [p |-> 0, o |-> 0, kind |-> "none"]

NoHist == [succeeded |-> FALSE, failedTerminal |-> FALSE, dlqFailed |-> FALSE]

\* for attempt in range(self.max_retries + 1): the attempts of one call
\* what is observed of a call of _process_with_retry: what each handler
\* invocation did, the send_to_dlq calls, the counters at entry and the result
\* number of calls of stop() on one consumer
MaxStops == 2

NoStops == [stops |-> 0, metrics_logs |-> 0, closes |-> 0, raised |-> "none"]

\* the body of stop(): _log_metrics(), the "Consumer stopping" line, and
\* self._consumer.close() with its outcome
StopCalled(log, close_outcome) ==
    [stops |-> log.stops + 1,
     metrics_logs |-> log.metrics_logs + 1,
     closes |-> log.closes + 1,
     raised |-> IF close_outcome = "returned" THEN "none" ELSE close_outcome]

NoCall ==
    [trail |-> <<>>, sent |-> <<>>, metrics0 |-> ZeroMetrics,
     result |-> "none"]

AttemptRange == 0 .. max_retries

\* retry_count of the DLQ record of an exhausted message, counted in attempts
\* (faulty variant of ExhaustedRetryCount)
ExhaustedRetryCountAttempts == max_retries + 1

\* retry_count=self.max_retries of the DLQ record of an exhausted message
ExhaustedRetryCount == max_retries

\* retry_count of a Permanent failure taken from the retry bound (faulty
\* variant of PermanentRetryCount)
PermanentRetryCountExhausted == max_retries + 1

\* retry_count=0 of the DLQ record of a Permanent failure
PermanentRetryCount == 0

\* a loop whose variable does not advance (faulty variant of NextAttempt)
NextAttemptStuck(a) == a

NextAttempt(a) == a + 1

Min(a, b) == IF a < b THEN a ELSE b

RECURSIVE Pow2(_)
Pow2(n) == IF n = 0 THEN 1 ELSE 2 * Pow2(n - 1)

\* backoff = min(self.retry_backoff_base * (2 ** attempt), self.retry_backoff_max)
Backoff(a) == Min(retry_backoff_base * Pow2(a), retry_backoff_max)

\* f"{original_topic}.dlq.{consumer_group}": a text is the sequence of its
\* pieces
DlqTopicName(original_topic, consumer_group) ==
    <<original_topic, ".dlq.", consumer_group>>

\* faulty variant of DlqKey: the partition is left out of the key
DlqKeyNoPartition(original_topic, original_partition, original_offset) ==
    <<original_topic, ":", ToString(original_offset)>>

\* f"{original_topic}:{original_partition}:{original_offset}": the numbers are
\* formatted as text
DlqKey(original_topic, original_partition, original_offset) ==
    <<original_topic, ":", ToString(original_partition), ":", ToString(original_offset)>>

\* the record the consumer runtime hands to the DLQ producer; failure_reason
\* and failed_at are left out of the consumer's view of the DLQ topic
DlqEnvelope(original_topic, original_partition, original_offset, original_payload, retry_count, consumer_group) ==
    [topic |-> DlqTopicName(original_topic, consumer_group),
     key |-> DlqKey(original_topic, original_partition, original_offset),
     original_topic |-> original_topic,
     original_partition |-> original_partition,
     original_offset |-> original_offset,
     original_payload |-> original_payload,
     retry_count |-> retry_count,
     consumer_group |-> consumer_group]

\* outcomes of produce() + flush(): acknowledged, delivery reported failed to
\* the callback (which only prints), or produce()/flush() raising
DlqOutcomes == {"acked", "delivery_failed", "raised"}

\* number of records on the DLQ topic whose key is that of record (p, o)
DlqCount(p, o) ==
    BagCardinality([e \in {x \in BagToSet(dlq_topic) : x.key = DlqKey(Topic, p, o)}
                       |-> dlq_topic[e]])

DlqAcked(p, o) == DlqCount(p, o) > 0

ConsumerInit ==
    /\ body \in [Partitions -> [Offsets -> {"json", "malformed"}]]
    /\ max_retries \in 0 .. MaxRetriesBound
    /\ committed = [p \in Partitions |-> 0]
    /\ position = [p \in Partitions |-> 0]
    /\ running = FALSE
    /\ pc = "new"
    /\ cur = None
    /\ attempt = 0
    /\ calls = 0
    /\ sleeps = <<>>
    /\ metrics = ZeroMetrics
    /\ dlq_topic = EmptyBag
    /\ hist = [p \in Partitions |-> [o \in Offsets |-> NoHist]]
    /\ last = NoLast
    /\ restarts = 0
    /\ call = NoCall
    /\ stop_log = NoStops

\* KafkaConsumer.start up to the loop: subscribe (auto.offset.reset=earliest,
\* fetch position = committed offset of the group) and set _running
Start ==
    /\ UNCHANGED notConsumer
    /\ pc = "new"
    /\ pc' = "poll"
    /\ running' = TRUE
    /\ position' = committed
    /\ UNCHANGED <<body, max_retries, committed, cur, attempt, calls, sleeps,
                   metrics, dlq_topic, hist, last, restarts, call, stop_log>>

\* one loop iteration whose poll returns a record with a JSON body: decode,
\* attach metadata and enter _process_with_retry
PollRecord(p) ==
    /\ UNCHANGED notConsumer
    /\ pc = "poll"
    /\ running
    /\ position[p] < LogLen
    /\ body[p][position[p]] = "json"
    /\ cur' = <<p, position[p]>>
    /\ position' = [position EXCEPT ![p] = @ + 1]
    /\ attempt' = 0
    /\ calls' = 0
    /\ sleeps' = <<>>
    /\ pc' = "attempt"
    /\ call' = [trail |-> <<>>, sent |-> <<>>, metrics0 |-> metrics,
                result |-> "running"]
    /\ UNCHANGED <<body, max_retries, committed, running, metrics, dlq_topic,
                   hist, last, restarts, stop_log>>

\* one loop iteration whose record is not valid JSON: json.loads raises inside
\* the try of start(), the except logs it; no handler call, no DLQ, no commit
PollMalformed(p) ==
    /\ UNCHANGED notConsumer
    /\ pc = "poll"
    /\ running
    /\ position[p] < LogLen
    /\ body[p][position[p]] = "malformed"
    /\ position' = [position EXCEPT ![p] = @ + 1]
    /\ last' = [p |-> p, o |-> position[p], kind |-> "decode_error"]
    /\ UNCHANGED <<body, max_retries, committed, running, pc, cur, attempt,
                   calls, sleeps, metrics, dlq_topic, hist, restarts, call, stop_log>>

\* a commit that leaves the committed offsets as they are (faulty variant of
\* CommitOffsets)
CommitOffsetsKept == committed

\* self._consumer.commit(asynchronous=False): called without a message or
\* offsets, it commits the current position of every assigned partition
CommitOffsets == position

\* success = True: the offsets are committed and the loop goes on. On a handle
\* that stop() has closed the call cannot commit: it raises, the except of
\* start() logs it and the loop goes on
Commit ==
    /\ UNCHANGED notConsumer
    /\ pc = "commit"
    /\ IF stop_log.closes = 0
       THEN /\ committed' = CommitOffsets
            /\ last' = [p |-> cur[1], o |-> cur[2], kind |-> "success"]
       ELSE /\ committed' = committed
            /\ last' = [p |-> cur[1], o |-> cur[2], kind |-> "commit_on_closed"]
    /\ pc' = "poll"
    /\ cur' = None
    /\ UNCHANGED <<body, max_retries, position, running, attempt, calls,
                   sleeps, metrics, dlq_topic, hist, restarts, call, stop_log>>

\* the handler returns: processed is counted and _process_with_retry returns
\* True
HandlerReturns ==
    /\ UNCHANGED notConsumer
    /\ pc = "attempt"
    /\ attempt \in AttemptRange
    /\ calls' = calls + 1
    /\ metrics' = [metrics EXCEPT !.messages_processed_total = @ + 1]
    /\ hist' = [hist EXCEPT ![cur[1]][cur[2]].succeeded = TRUE,
                            ![cur[1]][cur[2]].dlqFailed = FALSE]
    /\ pc' = "commit"
    /\ call' = [call EXCEPT !.trail = Append(@, "returned"), !.result = "true"]
    /\ UNCHANGED <<body, max_retries, committed, position, running, cur,
                   attempt, sleeps, dlq_topic, last, restarts, stop_log>>

\* send_to_dlq and what follows it in start(): on "acked" the envelope is on
\* the DLQ topic and _process_with_retry returns False; on "delivery_failed"
\* the callback prints and False is returned; on "raised" the exception leaves
\* _process_with_retry and is logged by the except of start(). In every case
\* the loop goes on without a commit.
RouteToDlq(raised, retry_count, out) ==
    LET p == cur[1]
        o == cur[2]
    IN  /\ call' = [call EXCEPT
                       !.trail = Append(@, raised),
                       !.sent = Append(@, [retry_count |-> retry_count,
                                           out |-> out]),
                       !.result = IF out = "raised" THEN "raised" ELSE "false"]
        /\ dlq_topic' =
              IF out = "acked"
              THEN dlq_topic (+)
                   SetToBag({DlqEnvelope(Topic, p, o, body[p][o],
                                         retry_count, GroupId)})
              ELSE dlq_topic
        /\ hist' = [hist EXCEPT ![p][o].failedTerminal = TRUE,
                                ![p][o].dlqFailed = (out # "acked")]
        /\ last' = [p |-> p, o |-> o,
                    kind |-> CASE out = "acked" -> "dlq"
                               [] out = "delivery_failed" -> "dlq_failed"
                               [] OTHER -> "dlq_raised"]
        /\ pc' = "poll"
        /\ cur' = None

\* except RetryableError / except Exception: retried is counted; below the
\* bound the consumer starts the backoff sleep (the loop continues in
\* SleepEnds), at the bound
\* dlq is counted and the message is sent to the DLQ with
\* retry_count = max_retries
RetryFlow(raised, out) ==
    /\ pc = "attempt"
    /\ attempt \in AttemptRange
    /\ calls' = calls + 1
    /\ IF attempt < max_retries
       THEN /\ out = "acked"
            /\ metrics' = [metrics EXCEPT !.messages_retried_total = @ + 1]
            /\ sleeps' = Append(sleeps, Backoff(attempt))
            /\ pc' = "sleep"
            /\ call' = [call EXCEPT !.trail = Append(@, raised)]
            /\ UNCHANGED <<cur, dlq_topic, hist, last>>
       ELSE /\ metrics' = [metrics EXCEPT !.messages_retried_total = @ + 1,
                                          !.messages_dlq_total = @ + 1]
            /\ RouteToDlq(raised, ExhaustedRetryCount, out)
            /\ UNCHANGED sleeps
    /\ UNCHANGED <<body, max_retries, committed, position, running, attempt,
                   restarts, stop_log>>

\* time.sleep(backoff) returns and the for loop takes the next attempt;
\* nothing on this path reads _running
SleepEnds ==
    /\ UNCHANGED notConsumer
    /\ pc = "sleep"
    /\ pc' = "attempt"
    /\ attempt' = NextAttempt(attempt)
    /\ UNCHANGED <<body, max_retries, committed, position, running, cur,
                   calls, sleeps, metrics, dlq_topic, hist, last, restarts,
                   call, stop_log>>

\* the handler raises RetryableError
HandlerRaisesRetryable ==
    /\ UNCHANGED notConsumer
    /\ \E out \in DlqOutcomes : RetryFlow("retryable", out)

\* the handler raises an exception that is neither Retryable nor Permanent
HandlerRaisesOther ==
    /\ UNCHANGED notConsumer
    /\ \E out \in DlqOutcomes : RetryFlow("other", out)

\* faulty variant of PermanentCounters: dlq is not counted
PermanentCountersFailedOnly(m) ==
    [m EXCEPT !.messages_failed_total = @ + 1]

\* self.metrics['messages_failed_total'] += 1 and
\* self.metrics['messages_dlq_total'] += 1 of the except PermanentError branch
PermanentCounters(m) ==
    [m EXCEPT !.messages_failed_total = @ + 1, !.messages_dlq_total = @ + 1]

\* the handler raises PermanentError: failed and dlq are counted and the
\* message is sent to the DLQ with retry_count = 0, without a retry
HandlerRaisesPermanent ==
    \E out \in DlqOutcomes :
        /\ UNCHANGED notConsumer
        /\ pc = "attempt"
        /\ attempt \in AttemptRange
        /\ calls' = calls + 1
        /\ metrics' = PermanentCounters(metrics)
        /\ RouteToDlq("permanent", PermanentRetryCount, out)
        /\ UNCHANGED <<body, max_retries, committed, position, running,
                       attempt, sleeps, restarts, stop_log>>

\* the signal handler of the service command: consumer.stop() and sys.exit(0);
\* the process ends wherever it is, its uncommitted work is not committed
Stop ==
    /\ UNCHANGED notConsumer
    /\ pc \in {"poll", "attempt", "sleep", "commit"}
    /\ running' = FALSE
    /\ stop_log' = StopCalled(stop_log, "returned")
    /\ pc' = "stopped"
    /\ cur' = None
    /\ attempt' = 0
    /\ sleeps' = <<>>
    /\ UNCHANGED <<body, max_retries, committed, position, calls, metrics,
                   dlq_topic, hist, last, restarts, call>>

\* a new process of the same group: a new KafkaConsumer (counters at zero)
\* whose start() resumes every partition at the group's committed offset
Restart ==
    /\ UNCHANGED notConsumer
    /\ pc = "stopped"
    /\ restarts < MaxRestarts
    /\ restarts' = restarts + 1
    /\ metrics' = ZeroMetrics
    /\ position' = committed
    /\ running' = TRUE
    /\ pc' = "poll"
    /\ attempt' = 0
    /\ calls' = 0
    /\ sleeps' = <<>>
    /\ last' = NoLast
    /\ call' = NoCall
    /\ stop_log' = NoStops
    /\ UNCHANGED <<body, max_retries, committed, cur, dlq_topic, hist>>

\* stop() on a consumer that has been stopped: nothing guards the method, so
\* the metrics and the message are logged and close() is called again; what
\* close() does on a closed handle is the library's choice (it returns, or
\* raises RuntimeError)
StopAgain(close_outcome) ==
    /\ UNCHANGED notConsumer
    /\ pc = "stopped"
    /\ stop_log.stops < MaxStops
    /\ running' = FALSE
    /\ stop_log' = StopCalled(stop_log, close_outcome)
    /\ UNCHANGED <<body, max_retries, committed, position, pc, cur, attempt,
                   calls, sleeps, metrics, dlq_topic, hist, last, restarts,
                   call>>

\* stop() called by code that does not end the process (another thread, the
\* handler, a caller's cleanup): the flag is cleared, the metrics and the
\* message are logged and the handle is closed, wherever start() is; the body
\* of stop() does nothing else
StopCall ==
    /\ UNCHANGED notConsumer
    /\ pc \in {"poll", "attempt", "sleep", "commit"}
    /\ stop_log.stops = 0
    /\ running' = FALSE
    /\ stop_log' = StopCalled(stop_log, "returned")
    /\ UNCHANGED <<body, max_retries, committed, position, pc, cur, attempt,
                   calls, sleeps, metrics, dlq_topic, hist, last, restarts,
                   call>>

\* while self._running: the loop condition is false and start() returns
StartReturns ==
    /\ UNCHANGED notConsumer
    /\ pc = "poll"
    /\ ~running
    /\ pc' = "returned"
    /\ UNCHANGED <<body, max_retries, committed, position, running, cur,
                   attempt, calls, sleeps, metrics, dlq_topic, hist, last,
                   restarts, call, stop_log>>

ConsumerNext ==
    \/ Start
    \/ \E p \in Partitions : PollRecord(p)
    \/ \E p \in Partitions : PollMalformed(p)
    \/ HandlerReturns
    \/ HandlerRaisesRetryable
    \/ HandlerRaisesOther
    \/ HandlerRaisesPermanent
    \/ SleepEnds
    \/ Commit
    \/ Stop

\* the consumer runtime at rest, for the specifications of the other parts
ConsumerIdle ==
    /\ body = [p \in Partitions |-> [o \in Offsets |-> "json"]]
    /\ max_retries = 0
    /\ committed = [p \in Partitions |-> 0]
    /\ position = [p \in Partitions |-> 0]
    /\ running = FALSE
    /\ pc = "new"
    /\ cur = None
    /\ attempt = 0
    /\ calls = 0
    /\ sleeps = <<>>
    /\ metrics = ZeroMetrics
    /\ dlq_topic = EmptyBag
    /\ hist = [p \in Partitions |-> [o \in Offsets |-> NoHist]]
    /\ last = NoLast
    /\ restarts = 0
    /\ call = NoCall
    /\ stop_log = NoStops

(***************************************************************************)
(* Audit handler: apps/audit-service/logs/management/commands/             *)
(* consume_events.py and logs/models.py                                    *)
(*                                                                         *)
(* JSON values are modelled by tokens; IntTokens are the tokens that are   *)
(* Python ints, every other token is a str.  An exception text is the set  *)
(* of tokens it is built from; a text contains a word when one of its      *)
(* tokens does.                                                            *)
(***************************************************************************)

\* number of handler invocations that can be in flight at once (deliveries of
\* the same record overlap when a partition is reassigned during a rebalance)
NumAuditSlots == 2

\* an invocation can begin: fewer than NumAuditSlots are in flight
AuditSlotFree == BagCardinality(audit_inflight) < NumAuditSlots

IntTokens == {"0", "1", "7", "100"}

TopicTokens == {"crm.customer.created", "identity.company.created", "7"}
PartitionTokens == {"0", "1", "timeout"}
OffsetTokens == {"100", "x"}
CompanyTokens == {"uuid", "not-a-uuid"}

AuditEvents ==
    [topic : TopicTokens, partition : PartitionTokens, offset : OffsetTokens,
     company_id : CompanyTokens]

\* the words the handlers look for in str(e).lower()
AuditDbWords == {"connection", "database", "operational", "timeout"}

\* the words of AuditDbWords that occur in a token
WordsIn(token) ==
    CASE token = "timeout" -> {"timeout"}
      [] token = "connection reset by peer" -> {"connection"}
      [] token = "Database Co" -> {"database"}
      [] OTHER -> {}

\* failures of the storage layer during a query: no failure, or the text of
\* the OperationalError
DbOk == "ok"
DbFailures == {"connection reset by peer", "deadlock detected"}

\* isinstance(kafka_topic, str) and isinstance(kafka_partition, int) and
\* isinstance(kafka_offset, int)
ValidMetadata(e) ==
    /\ e.topic \notin IntTokens
    /\ e.partition \in IntTokens
    /\ e.offset \in IntTokens

AuditKey(e) == <<e.topic, e.partition, e.offset>>

\* the except clause of handle_event: Retryable when the lowered text holds
\* one of the four words, Permanent otherwise
AuditClassify(text) ==
    IF \E t \in text : WordsIn(t) \cap AuditDbWords # {}
    THEN "retryable"
    ELSE "permanent"

\* AuditLog.objects.filter(topic, partition, offset).exists()
AuditExists(key) == \E r \in BagToSet(audit_store) : r = key

\* a store without the unique constraint (faulty variant of UniqueViolated)
UniqueViolatedNever(key) == FALSE

\* UniqueConstraint unique_kafka_message on (topic, partition, offset)
UniqueViolated(key) == \E r \in BagToSet(audit_store) : r = key

AuditRowCount(key) ==
    IF key \in BagToSet(audit_store) THEN audit_store[key] ELSE 0

NoKey == <<"-", "-", "-">>

\* the record of a finished invocation of handle_event(e)
AuditOut(result, cause, e) ==
    [result |-> result, cause |-> cause,
     key |-> IF ValidMetadata(e) THEN AuditKey(e) ELSE NoKey]

NoOut == [result |-> "none", cause |-> "none", key |-> NoKey]

\* an invocation of handle_event(e) ends with result (ok, retryable, permanent)
AuditFinish(e, result, cause) ==
    /\ audit_last' = AuditOut(result, cause, e)
    /\ audit_ok' = IF result = "ok" THEN audit_ok \cup {AuditKey(e)} ELSE audit_ok

AuditInit ==
    /\ audit_store = EmptyBag
    /\ audit_inflight = EmptyBag
    /\ audit_last = NoOut
    /\ audit_ok = {}

\* handle_event up to the existence check, invalid metadata: the
\* PermanentError of line 53 is raised inside the try and classified by the
\* except clause from its text, which holds the three values
AuditDeliverInvalid(e) ==
    /\ UNCHANGED notAudit
    /\ AuditSlotFree
    /\ ~ValidMetadata(e)
    /\ AuditFinish(e, AuditClassify({e.topic, e.partition, e.offset}),
                   "invalid_metadata")
    /\ UNCHANGED <<audit_store, audit_inflight>>

\* handle_event up to the existence check, valid metadata: the SELECT fails
\* (classified by its text), or finds the row (return), or finds none
AuditDeliver(e, db) ==
    /\ UNCHANGED notAudit
    /\ AuditSlotFree
    /\ ValidMetadata(e)
    /\ IF db # DbOk
       THEN /\ AuditFinish(e, AuditClassify({db}), "db_error")
            /\ UNCHANGED audit_inflight
       ELSE IF AuditExists(AuditKey(e))
       THEN /\ AuditFinish(e, "ok", "duplicate")
            /\ UNCHANGED audit_inflight
       ELSE /\ audit_inflight' = audit_inflight (+) SetToBag({e})
            /\ UNCHANGED <<audit_last, audit_ok>>
    /\ UNCHANGED audit_store

\* AuditLog.objects.create(...): the company_id is no UUID (ValidationError,
\* its text holds the value), or the INSERT fails in the storage layer, or the
\* unique constraint is violated (IntegrityError, its text holds the key), or
\* the row is stored; every exception is classified by the except clause
AuditInsert(e, db) ==
    LET key == AuditKey(e)
    IN  /\ UNCHANGED notAudit
        /\ e \in BagToSet(audit_inflight)
        /\ audit_inflight' = audit_inflight (-) SetToBag({e})
        /\ IF e.company_id = "not-a-uuid"
           THEN /\ db = DbOk
                /\ AuditFinish(e, AuditClassify({e.company_id}), "validation")
                /\ UNCHANGED audit_store
           ELSE IF db # DbOk
           THEN /\ AuditFinish(e, AuditClassify({db}), "db_error")
                /\ UNCHANGED audit_store
           ELSE IF UniqueViolated(key)
           THEN /\ AuditFinish(e, AuditClassify({e.topic, e.partition, e.offset}),
                               "integrity")
                /\ UNCHANGED audit_store
           ELSE /\ AuditFinish(e, "ok", "stored")
                /\ audit_store' = audit_store (+) SetToBag({key})

AuditNext ==
    \/ \E e \in AuditEvents : AuditDeliverInvalid(e)
    \/ \E e \in AuditEvents, db \in {DbOk} \cup DbFailures : AuditDeliver(e, db)
    \/ \E e \in AuditEvents, db \in {DbOk} \cup DbFailures : AuditInsert(e, db)

(***************************************************************************)
(* Notification handler: apps/notification-service/notifications/          *)
(* management/commands/consume_events.py and notifications/models.py       *)
(***************************************************************************)

\* number of deliveries to the notification handler
MaxNotifDeliveries == 3

\* customer_id: a UUID, absent/empty, or a string that is no UUID
NotifCustomerTokens == {"uuid-1", "", "not-a-uuid"}
\* name: absent/empty or a customer name
NotifNameTokens == {"Acme", "", "Database Co"}
\* visibility_list: a JSON list of company ids, or a value that is no list
NotifVisibility ==
    {[is_list |-> TRUE, items |-> <<>>],
     [is_list |-> TRUE, items |-> <<"A">>],
     [is_list |-> TRUE, items |-> <<"A", "B">>],
     [is_list |-> FALSE, items |-> <<>>]}
\* the record's coordinates <<partition, offset>> on crm.customer.created
NotifCoordinates == {<<0, 100>>, <<1, 100>>}

NotifEvents ==
    [customer_id : NotifCustomerTokens, name : NotifNameTokens,
     visibility_list : NotifVisibility, src : NotifCoordinates]

\* the words the notification handler looks for in str(e).lower()
NotifDbWords == {"connection", "database"}

\* the except clause of handle_event
NotifClassify(text) ==
    IF \E t \in text : WordsIn(t) \cap NotifDbWords # {}
    THEN "retryable"
    ELSE "permanent"

\* the row Notification.objects.create stores for an event; src is not a
\* column: it records which broker record the row was created for
NotifRow(e) ==
    [title |-> e.name,
     visible_to_company_ids |-> e.visibility_list.items,
     related_entity_id |-> e.customer_id,
     src |-> e.src]

\* Notification.objects.create(...): one more row, whatever is stored already
NotifInsert(store, e) == store (+) SetToBag({NotifRow(e)})

NotifInit ==
    /\ notif_store = EmptyBag
    /\ notif_last = [result |-> "none", cause |-> "none", src |-> <<0, 0>>]
    /\ notif_count = 0

\* one delivery of an event to handle_event, with the storage layer's answer
\* to the INSERT (db); every exception, the PermanentErrors of the validation
\* included, is classified by the except clause from its text
NotifDeliver(e, db) ==
    /\ UNCHANGED notNotif
    /\ notif_count < MaxNotifDeliveries
    /\ notif_count' = notif_count + 1
    /\ IF e.customer_id = "" \/ e.name = ""
       THEN /\ db = DbOk
            /\ notif_last' = [result |-> NotifClassify({e.customer_id, e.name}),
                              cause |-> "missing_field", src |-> e.src]
            /\ UNCHANGED notif_store
       ELSE IF ~e.visibility_list.is_list
       THEN /\ db = DbOk
            /\ notif_last' = [result |-> NotifClassify({}),
                              cause |-> "not_a_list", src |-> e.src]
            /\ UNCHANGED notif_store
       ELSE IF e.customer_id = "not-a-uuid"
       THEN /\ db = DbOk
            /\ notif_last' = [result |-> NotifClassify({e.customer_id}),
                              cause |-> "validation", src |-> e.src]
            /\ UNCHANGED notif_store
       ELSE IF db # DbOk
       THEN /\ notif_last' = [result |-> NotifClassify({db}),
                              cause |-> "db_error", src |-> e.src]
            /\ UNCHANGED notif_store
       ELSE /\ notif_last' = [result |-> "ok", cause |-> "stored", src |-> e.src]
            /\ notif_store' = NotifInsert(notif_store, e)

NotifNext ==
    \E e \in NotifEvents, db \in {DbOk} \cup DbFailures : NotifDeliver(e, db)

(***************************************************************************)
(* Identity service: apps/identity-service/companies/models.py and         *)
(* users/models.py                                                         *)
(***************************************************************************)

NoCompany == "null"

\* the ids companies can have, in the order the storage layer lists them
CompanyOrder == <<"A", "B", "C">>

CompanyIds == {CompanyOrder[i] : i \in 1 .. Len(CompanyOrder)}

SeqToSet(q) == {q[i] : i \in 1 .. Len(q)}

Roles == {"SYSTEM_ADMIN", "COMPANY_ADMIN", "USER"}

\* self.children.values_list('id', flat=True) and
\* Company.objects.filter(parent_id=c).values_list('id', flat=True)
ChildrenOf(c) ==
    SelectSeq(CompanyOrder, LAMBDA x : x \in companies /\ parent[x] = c)

\* a traversal that stops at the children (faulty variant of DescendantLoop)
DescendantLoopChildrenOnly(queue, descendant_ids) == descendant_ids \o queue

\* the while loop of get_descendant_ids: pop the head of the queue, append it
\* to the result, extend the queue by its children
RECURSIVE DescendantLoop(_, _)
DescendantLoop(queue, descendant_ids) ==
    IF queue = <<>>
    THEN descendant_ids
    ELSE LET child_id == Head(queue)
         IN  DescendantLoop(Tail(queue) \o ChildrenOf(child_id),
                            Append(descendant_ids, child_id))

\* Company.get_descendant_ids
get_descendant_ids(c) == DescendantLoop(ChildrenOf(c), <<>>)

\* Company.get_visibility_scope
get_visibility_scope(c) == <<c>> \o get_descendant_ids(c)

\* User.get_visible_company_ids, for a user with this role and company
get_visible_company_ids(role, company) ==
    IF role = "SYSTEM_ADMIN" THEN <<>>
    ELSE IF company = NoCompany THEN <<>>
    ELSE IF role = "COMPANY_ADMIN" THEN get_descendant_ids(company)
    ELSE <<company>>

NoScope ==
    [called |-> FALSE, company |-> NoCompany, descendant_ids |-> <<>>,
     scope |-> <<>>]

NoMutation == [done |-> FALSE, company |-> NoCompany, parent |-> NoCompany]

IdentityInit ==
    /\ companies = {}
    /\ parent = [c \in CompanyIds |-> NoCompany]
    /\ ident_req = [called |-> FALSE, role |-> "USER", company |-> NoCompany,
                    result |-> <<>>]
    /\ ident_scope = NoScope
    /\ ident_mut = NoMutation

\* Company.objects.create(name=..., parent=...): a new company, a root or a
\* child of an existing company
CreateCompany(c, par) ==
    /\ UNCHANGED notIdentity
    /\ c \notin companies
    /\ par \in companies \cup {NoCompany}
    /\ companies' = companies \cup {c}
    /\ parent' = [parent EXCEPT ![c] = par]
    /\ ident_scope' = NoScope
    /\ UNCHANGED <<ident_req, ident_mut>>

\* a call of get_visible_company_ids on a user of this role and company (as at
\* login)
GetVisibleCompanyIds(role, company) ==
    /\ UNCHANGED notIdentity
    /\ company \in companies \cup {NoCompany}
    /\ ident_req' = [called |-> TRUE, role |-> role, company |-> company,
                     result |-> get_visible_company_ids(role, company)]
    /\ UNCHANGED <<companies, parent, ident_scope, ident_mut>>

\* a call of get_visibility_scope on company c, and of get_descendant_ids
\* within it
GetVisibilityScope(c) ==
    /\ UNCHANGED notIdentity
    /\ c \in companies
    /\ ident_scope' = [called |-> TRUE, company |-> c,
                       descendant_ids |-> get_descendant_ids(c),
                       scope |-> get_visibility_scope(c)]
    /\ UNCHANGED <<companies, parent, ident_req, ident_mut>>

\* the parent of company c is set to par and the company saved (the change
\* form of CompanyAdmin, or company.parent = ...; company.save()): the model
\* validates nothing about the hierarchy
SetParent(c, par) ==
    /\ UNCHANGED notIdentity
    /\ c \in companies
    /\ par \in companies \cup {NoCompany}
    /\ parent' = [parent EXCEPT ![c] = par]
    /\ ident_mut' = [done |-> TRUE, company |-> c, parent |-> par]
    /\ ident_scope' = NoScope
    /\ UNCHANGED <<companies, ident_req>>

IdentityNext ==
    \/ \E c \in CompanyIds, par \in CompanyIds \cup {NoCompany} :
          CreateCompany(c, par)
    \/ \E role \in Roles, company \in CompanyIds \cup {NoCompany} :
          GetVisibleCompanyIds(role, company)
    \/ \E c \in CompanyIds : GetVisibilityScope(c)

\* creations and changes of parent
HierarchyNext ==
    \/ \E c \in CompanyIds, par \in CompanyIds \cup {NoCompany} :
          CreateCompany(c, par)
    \/ \E c \in CompanyIds, par \in CompanyIds \cup {NoCompany} :
          SetParent(c, par)

(***************************************************************************)
(* CRM service read path: apps/crm-service/crm_project/schema.py,          *)
(* customers/mutations.py, and the principal of                            *)
(* shared_python/jwt_auth.py                                               *)
(***************************************************************************)

\* number of customers created
MaxCustomers == 2

\* the company ids principals and customers carry (X: a company outside the
\* hierarchy of A and B), in the order a list made from a set has them
CrmOrder == <<"A", "B", "X">>

\* list(set(ids)): the ids without duplicates (in the order of CrmOrder)
ListOfSet(ids) == SelectSeq(CrmOrder, LAMBDA x : x \in ids)

\* AnonymousUser()
AnonymousUser ==
    [is_authenticated |-> FALSE, user_id |-> "None", email |-> "None",
     role |-> "None", company_id |-> NoCompany, visible_company_ids |-> <<>>]

\* AuthenticatedUser(user_id, email, role, company_id, visible_company_ids)
AuthenticatedUser(user_id, email, role, company_id, visible_company_ids) ==
    [is_authenticated |-> TRUE, user_id |-> user_id, email |-> email,
     role |-> role, company_id |-> company_id,
     visible_company_ids |-> visible_company_ids]

\* the company_id and visible_company_ids claims a token can carry together
\* (a token need not carry a scope, and its scope need not hold its company)
TokenScopes ==
    {<<"A", <<"A", "B">>>>, <<"X", <<>>>>, <<"X", <<"X">>>>, <<NoCompany, <<"B">>>>}

\* the principals the middleware can attach to a request
Principals ==
    {AnonymousUser} \cup
    {AuthenticatedUser("u-1", "u1@test.com", r, t[1], t[2]) :
        r \in Roles, t \in TokenScopes}

\* the visibility_company_ids of a create request: none, or a list that may
\* name a company twice
RequestedLists == {<<>>, <<"B">>, <<"B", "X">>, <<"X", "X">>}

\* the list without the creator's company (faulty variant of visibility_ids)
visibility_ids_requested_only(company_id, visibility_company_ids) == visibility_company_ids

\* visibility_ids of CreateCustomer.mutate: the creator's company, extended by
\* the requested companies
visibility_ids(company_id, visibility_company_ids) == <<company_id>> \o visibility_company_ids

\* Q(visible_to_company_ids__contains=[company_id]): the JSON list holds the id
JsonContains(list, company_id) == \E i \in 1 .. Len(list) : list[i] = company_id

\* faulty variant of resolve_customers: an empty scope means "no filter", as in
\* VisibilityScopedManager.for_user
resolve_customers_empty_is_all(user) ==
    IF ~user.is_authenticated THEN {}
    ELSE IF user.role = "SYSTEM_ADMIN" \/ user.visible_company_ids = <<>>
    THEN customers
    ELSE {c \in customers :
            \E i \in 1 .. Len(user.visible_company_ids) :
                JsonContains(c.visible_to_company_ids, user.visible_company_ids[i])}

\* Query.resolve_customers
resolve_customers(user) ==
    IF ~user.is_authenticated THEN {}
    ELSE IF user.role = "SYSTEM_ADMIN" THEN customers
    ELSE IF user.visible_company_ids = <<>> THEN {}
    ELSE {c \in customers :
            \E i \in 1 .. Len(user.visible_company_ids) :
                JsonContains(c.visible_to_company_ids, user.visible_company_ids[i])}

\* Query.resolve_customer: the set holding the customer returned, empty when
\* the resolver returns None
resolve_customer(user, id) ==
    IF ~user.is_authenticated THEN {}
    ELSE LET found == {c \in customers : c.id = id}
         IN  IF found = {} THEN {}
             ELSE IF user.role = "SYSTEM_ADMIN" THEN found
             ELSE IF user.visible_company_ids = <<>> THEN {}
             ELSE {c \in found :
                     \E i \in 1 .. Len(user.visible_company_ids) :
                         user.visible_company_ids[i]
                             \in SeqToSet(c.visible_to_company_ids)}

NoQuery ==
    [kind |-> "none", user |-> AnonymousUser, id |-> 0, input |-> <<>>,
     result |-> {}, error |-> "none", published |-> <<>>]

\* KafkaProducer.publish: produce and flush; the delivery report is "delivered"
\* or an error that the callback prints
PublishOutcomes == {"delivered", "failed"}

publish(topic, key, value, out) ==
    IF out = "delivered"
    THEN crm_published \cup {[topic |-> topic, key |-> key, value |-> value]}
    ELSE crm_published

CrmInit ==
    /\ customers = {}
    /\ crm_published = {}
    /\ crm_req = NoQuery

\* faulty variant of CreateError: a principal without a company is accepted
CreateErrorCompanyUnchecked(user) ==
    IF ~user.is_authenticated
    THEN "Authentication required to create customers"
    ELSE "none"

\* the two checks at the head of CreateCustomer.mutate: the message of the
\* exception raised, "none" when the request is accepted
CreateError(user) ==
    IF ~user.is_authenticated
    THEN "Authentication required to create customers"
    ELSE IF user.company_id = NoCompany
    THEN "User must belong to a company to create customers"
    ELSE "none"

\* CreateCustomer.mutate by an authenticated principal with a company: the
\* customer is visible to the creator's company and to the requested ones,
\* its coordinates are empty, and the event is published after the insert
CreateCustomer(user, visibility_company_ids, out) ==
    LET customer ==
            [id |-> Cardinality(customers) + 1,
             created_by_company_id |-> user.company_id,
             visible_to_company_ids |->
                 ListOfSet(SeqToSet(visibility_ids(user.company_id,
                                                   visibility_company_ids))),
             latitude |-> None, longitude |-> None, geocoded_at |-> None,
             updated_at |-> 0]
        event ==
            [topic |-> "crm.customer.created", key |-> customer.id,
             value |-> [customer_id |-> customer.id,
                        company_id |-> user.company_id,
                        visibility_list |-> customer.visible_to_company_ids]]
    IN  /\ UNCHANGED notCrm
        /\ Cardinality(customers) < MaxCustomers
        /\ CreateError(user) = "none"
        /\ customers' = customers \cup {customer}
        /\ crm_published' = publish(event.topic, event.key, event.value, out)
        /\ crm_req' = [kind |-> "create", user |-> user, id |-> customer.id,
                       input |-> visibility_company_ids, result |-> {customer},
                       error |-> "none", published |-> <<event>>]

\* CreateCustomer.mutate by a principal that fails one of the two checks: the
\* exception is raised before the insert and the publish
CreateCustomerRejected(user, visibility_company_ids) ==
    /\ UNCHANGED notCrm
    /\ CreateError(user) # "none"
    /\ crm_req' = [kind |-> "create", user |-> user, id |-> 0,
                   input |-> visibility_company_ids, result |-> {},
                   error |-> CreateError(user), published |-> <<>>]
    /\ UNCHANGED <<customers, crm_published>>

\* the customers query of a principal
QueryCustomers(user) ==
    /\ UNCHANGED notCrm
    /\ crm_req' = [kind |-> "list", user |-> user, id |-> 0, input |-> <<>>,
                   result |-> resolve_customers(user),
                   error |-> "none", published |-> <<>>]
    /\ UNCHANGED <<customers, crm_published>>

\* the customer(id) query of a principal
QueryCustomer(user, id) ==
    /\ UNCHANGED notCrm
    /\ crm_req' = [kind |-> "single", user |-> user, id |-> id, input |-> <<>>,
                   result |-> resolve_customer(user, id),
                   error |-> "none", published |-> <<>>]
    /\ UNCHANGED <<customers, crm_published>>

\* the queries over the customers created (every event delivered; the
\* outcomes of the publish are explored by CreateNext)
CrmNext ==
    \/ \E user \in Principals, ids \in RequestedLists :
          CreateCustomer(user, ids, "delivered")
    \/ \E user \in Principals : QueryCustomers(user)
    \/ \E user \in Principals, id \in 1 .. MaxCustomers : QueryCustomer(user, id)

\* the create mutation alone, accepted and rejected
CreateNext ==
    \/ \E user \in Principals, ids \in RequestedLists, out \in PublishOutcomes :
          CreateCustomer(user, ids, out)
    \/ \E user \in Principals, ids \in RequestedLists :
          CreateCustomerRejected(user, ids)

(***************************************************************************)
(* Internal coordinates endpoint: apps/crm-service/customers/views.py      *)
(*                                                                         *)
(* A request body is not JSON, a JSON array, or a JSON object with the     *)
(* latitude and longitude it carries; a JSON value is a number (a token of *)
(* NumberTokens), a string, or a list.                                     *)
(***************************************************************************)

NumberTokens == {"-33.8688", "151.2093"}
CoordValues == NumberTokens \cup {"abc", "[1]"}
CoordKeys == {"latitude", "longitude"}

\* the JSON objects a body can be: each key absent or bound to a value
CoordObjects ==
    UNION {[keys -> vals] : keys \in SUBSET CoordKeys,
                            vals \in {{"-33.8688", "abc"}, {"151.2093", "[1]"}}}

CoordBodies ==
    {[kind |-> "not_json", data |-> <<>>], [kind |-> "array", data |-> <<>>]}
    \cup {[kind |-> "object", data |-> d] : d \in CoordObjects}

\* the hours at which requests arrive (customers are created at hour 0)
CoordTimes == {1, 2}

\* float(data.get(key)): the number, ValueError for a string that is no
\* number, TypeError for None (key absent) and for a list
Float(data, key) ==
    IF key \notin DOMAIN data THEN [raised |-> "TypeError", value |-> None]
    ELSE IF data[key] \in NumberTokens THEN [raised |-> "none", value |-> data[key]]
    ELSE IF data[key] = "[1]" THEN [raised |-> "TypeError", value |-> None]
    ELSE [raised |-> "ValueError", value |-> None]

\* the second try block of the view: the exception it ends with ("none" when
\* both coordinates were read); json.loads raises JSONDecodeError, data.get
\* on a list AttributeError, float is evaluated for latitude first
ParseError(request_body) ==
    IF request_body.kind = "not_json" THEN "JSONDecodeError"
    ELSE IF request_body.kind = "array" THEN "AttributeError"
    ELSE IF Float(request_body.data, "latitude").raised # "none"
    THEN Float(request_body.data, "latitude").raised
    ELSE Float(request_body.data, "longitude").raised

\* except (ValueError, KeyError, json.JSONDecodeError)
CaughtByView == {"ValueError", "KeyError", "JSONDecodeError"}

\* the status of the response: 404 without the customer, 400 for a caught
\* exception, 500 (the framework's answer) for an uncaught one, 200 otherwise
CoordStatus(found, request_body) ==
    IF found = {} THEN 404
    ELSE IF ParseError(request_body) = "none" THEN 200
    ELSE IF ParseError(request_body) \in CaughtByView THEN 400
    ELSE 500

NoCoordRequest ==
    [customer_id |-> 0, body |-> [kind |-> "not_json", data |-> <<>>],
     now |-> 0, before |-> {}, status |-> 0]

CoordInit == coord_req = NoCoordRequest

\* update_customer_coordinates: on 200 the row is saved with the two
\* coordinates and geocoded_at; save() also refreshes updated_at (auto_now)
UpdateCustomerCoordinates(customer_id, request_body, now) ==
    LET found == {c \in customers : c.id = customer_id}
        status == CoordStatus(found, request_body)
        saved(c) == [c EXCEPT !.latitude = Float(request_body.data, "latitude").value,
                              !.longitude = Float(request_body.data, "longitude").value,
                              !.geocoded_at = now,
                              !.updated_at = now]
    IN  /\ UNCHANGED notCoord
        /\ coord_req' = [customer_id |-> customer_id, body |-> request_body,
                         now |-> now, before |-> found, status |-> status]
        /\ customers' = IF status = 200
                        THEN (customers \ found) \cup {saved(c) : c \in found}
                        ELSE customers

\* the customers the endpoint is called for are created by one company
CoordNext ==
    \/ \E out \in PublishOutcomes :
          CreateCustomer(AuthenticatedUser("u-1", "u1@test.com", "USER", "A", <<"A", "B">>), <<>>, out)
    \/ \E customer_id \in 1 .. MaxCustomers, request_body \in CoordBodies, now \in CoordTimes :
          UpdateCustomerCoordinates(customer_id, request_body, now)

(***************************************************************************)
(* Tokens: apps/identity-service/users/views.py (issue) and                *)
(* shared_python/jwt_auth.py (verify)                                      *)
(*                                                                         *)
(* A token is its signing secret and its payload; the payload is a         *)
(* function from the names of the claims it carries to their values.       *)
(* Times are hours.                                                        *)
(***************************************************************************)

\* settings.JWT_EXPIRATION_HOURS
JWT_EXPIRATION_HOURS == 24

\* settings.JWT_SECRET_KEY of the issuer, os.getenv("JWT_SECRET_KEY") of the
\* verifiers: one secret for the deployment
JWT_SECRET_KEY == "process-secret"

Secrets == {JWT_SECRET_KEY, "other-secret"}

\* the tokens that are strings in UUID format
UuidTokens == {"u-1", "X"} \cup CompanyIds

\* uuid.UUID(v): returns for a str in UUID format, raises ValueError for any
\* other str, and AttributeError for a value that is no str
uuid_UUID(v) ==
    IF v \in IntTokens THEN "AttributeError"
    ELSE IF v \in UuidTokens THEN "ok"
    ELSE "ValueError"

\* the values Python takes for false among the claim values
Falsy(v) == v \in {None, NoCompany, ""}

\* payload.get(k, default)
Get(payload, k, default) ==
    IF k \in DOMAIN payload THEN payload[k] ELSE default

\* the payload of a token that did not decode (None)
NoPayload == [k \in {} |-> None]

\* the users of the identity service
IdentityUsers ==
    [id : {"u-1"}, email : {"u1@test.com"}, role : Roles,
     company : CompanyIds \cup {NoCompany}]

\* create_jwt_token(user) at time now
create_jwt_token(user, now) ==
    [sig |-> JWT_SECRET_KEY,
     payload |-> [user_id |-> user.id,
                  email |-> user.email,
                  role |-> user.role,
                  company_id |-> user.company,
                  exp |-> now + JWT_EXPIRATION_HOURS,
                  iat |-> now]]

\* decode_jwt_token(token) at time now: the payload, or None when the
\* signature does not verify under the secret or the exp claim has passed
decode_jwt_token(token, now) ==
    IF token.sig # JWT_SECRET_KEY THEN NoPayload
    ELSE IF "exp" \in DOMAIN token.payload /\ token.payload["exp"] <= now
    THEN NoPayload
    ELSE token.payload

Returned(user) == [outcome |-> "returned", user |-> user]

\* an exception that get_user_from_token does not catch
Raised(exception) == [outcome |-> exception, user |-> AnonymousUser]

\* get_user_from_token(token) at time now
get_user_from_token(token, now) ==
    LET payload == decode_jwt_token(token, now)
        user_id == Get(payload, "user_id", None)
        company_id == Get(payload, "company_id", NoCompany)
    IN  IF DOMAIN payload = {} THEN Returned(AnonymousUser)
        ELSE IF Falsy(user_id) THEN Returned(AnonymousUser)
        ELSE IF uuid_UUID(user_id) = "AttributeError"
        THEN Raised("AttributeError")
        ELSE IF uuid_UUID(user_id) = "ValueError" THEN Returned(AnonymousUser)
        ELSE IF ~Falsy(company_id) /\ uuid_UUID(company_id) = "AttributeError"
        THEN Raised("AttributeError")
        ELSE IF ~Falsy(company_id) /\ uuid_UUID(company_id) = "ValueError"
        THEN Returned(AnonymousUser)
        ELSE Returned(AuthenticatedUser(
                 user_id,
                 Get(payload, "email", None),
                 Get(payload, "role", "USER"),
                 company_id,
                 Get(payload, "visible_company_ids", <<>>)))

\* the times of logins and of verifications
LoginTimes == {0, 1}

Times ==
    {0, JWT_EXPIRATION_HOURS - 1, JWT_EXPIRATION_HOURS, JWT_EXPIRATION_HOURS + 1}

NoToken == [sig |-> "none", payload |-> NoPayload]

NoLogin ==
    [done |-> FALSE, user |-> [id |-> None, email |-> None, role |-> "USER",
                               company |-> NoCompany],
     scope |-> <<>>, now |-> 0, token |-> NoToken]

NoCheck ==
    [kind |-> "none", token |-> NoToken, now |-> 0,
     result |-> Returned(AnonymousUser)]

TokenInit ==
    /\ token_login = NoLogin
    /\ token_check = NoCheck

\* login_view / Login.mutate with the right password at time now: the token of
\* create_jwt_token; scope records what user.get_visible_company_ids() is at
\* that moment (the login does not call it)
Login(user, now) ==
    /\ UNCHANGED notToken
    /\ user.company \in companies \cup {NoCompany}
    /\ token_login' = [done |-> TRUE, user |-> user,
                       scope |-> get_visible_company_ids(user.role, user.company),
                       now |-> now, token |-> create_jwt_token(user, now)]
    /\ token_check' = NoCheck

\* a request at time now carrying the token of the last login: the middleware
\* calls get_user_from_token
VerifyIssued(now) ==
    /\ UNCHANGED notToken
    /\ token_login.done
    /\ now >= token_login.now
    /\ token_check' = [kind |-> "issued", token |-> token_login.token,
                       now |-> now,
                       result |-> get_user_from_token(token_login.token, now)]
    /\ UNCHANGED token_login

\* the claims of the tokens presented by clients, and the claims a token may
\* lack
PresentedClaims ==
    [user_id : {"u-1", "", "not-a-uuid", "7"},
     email : {"u1@test.com"},
     role : {"USER"},
     company_id : {"A", "not-a-uuid", "7"},
     visible_company_ids : {<<"A">>},
     exp : {JWT_EXPIRATION_HOURS}]

OptionalClaims == {"user_id", "company_id", "exp"}

ClaimNames == {"user_id", "email", "role", "company_id", "visible_company_ids", "exp"}

PresentedTokens ==
    {[sig |-> k, payload |-> [n \in ClaimNames \ lacking |-> c[n]]] :
        k \in Secrets, c \in PresentedClaims, lacking \in SUBSET OptionalClaims}

\* a request at time now carrying any token
VerifyToken(token, now) ==
    /\ UNCHANGED notToken
    /\ token_check' = [kind |-> "presented", token |-> token, now |-> now,
                       result |-> get_user_from_token(token, now)]
    /\ UNCHANGED token_login

\* logins against a growing hierarchy
TokenNext ==
    \/ \E c \in CompanyIds, par \in CompanyIds \cup {NoCompany} :
          CreateCompany(c, par)
    \/ \E user \in IdentityUsers, now \in LoginTimes : Login(user, now)
    \/ \E now \in Times : VerifyIssued(now)

VerifyNext == \E token \in PresentedTokens, now \in Times : VerifyToken(token, now)

(***************************************************************************)
(* Dead letter producer: DeadLetterQueueProducer.send_to_dlq               *)
(***************************************************************************)

DlqTopics == {"crm.customer.created", "crm.customer.updated"}
DlqPartitions == {0, 1}
DlqOffsets == {0, 100}
DlqPayloads == {"payload-1", "payload-2"}
DlqReasons == {"Test failure", "timeout"}
DlqRetryCounts == {0, 2}
DlqGroups == {"audit-group", "test-group"}
DlqTimes == {0, 1}

\* dlq_message of send_to_dlq; failed_at is the clock at the call
DlqMessage(original_topic, original_partition, original_offset, original_payload, failure_reason, retry_count, failed_at, consumer_group) ==
    [original_topic |-> original_topic,
     original_partition |-> original_partition,
     original_offset |-> original_offset,
     original_payload |-> original_payload,
     failure_reason |-> failure_reason,
     retry_count |-> retry_count,
     failed_at |-> failed_at,
     consumer_group |-> consumer_group]

NoDlqRequest ==
    [args |-> <<>>, now |-> 0, produced |-> <<>>, records |-> <<>>,
     result |-> "none"]

DlqInit == dlq_req = NoDlqRequest

\* send_to_dlq: one produce() and one flush(); the record lands on the topic
\* when the broker acknowledges it, otherwise the callback prints, or the
\* exception of produce()/flush() leaves the method
SendToDlq(t, p, o, payload, reason, rc, g, now, out) ==
    LET request == [topic |-> DlqTopicName(t, g),
                    key |-> DlqKey(t, p, o),
                    value |-> DlqMessage(t, p, o, payload, reason, rc, now, g)]
    IN  /\ dlq_req' = [args |-> <<t, p, o, payload, reason, rc, g>>,
                       now |-> now,
                       produced |-> <<request>>,
                       records |-> IF out = "acked" THEN <<request>> ELSE <<>>,
                       result |-> IF out = "raised" THEN "raised"
                                  ELSE "returned"]
        /\ UNCHANGED notDlq

DlqNext ==
    \E t \in DlqTopics, p \in DlqPartitions, o \in DlqOffsets,
       payload \in DlqPayloads, reason \in DlqReasons, rc \in DlqRetryCounts,
       g \in DlqGroups, now \in DlqTimes, out \in DlqOutcomes :
        SendToDlq(t, p, o, payload, reason, rc, g, now, out)

(***************************************************************************)
(* Geocode worker: apps/geocode-worker/geocode_worker/handler.py           *)
(*                                                                         *)
(* A JSON value of the event is a token: None when the key is absent,      *)
(* a token of IntTokens for a number, any other token for a string.        *)
(***************************************************************************)

GeoCustomerIds == {None, "", "7", "uuid-1", "uuid-2"}
GeoAddresses == {None, "", "7", "1 Main St", "2 High St", "3 Low Rd"}

GeoEvents == [customer_id : GeoCustomerIds, address : GeoAddresses]

\* what client.patch(...) can end with: a response with a status code, or an
\* exception of the transport (httpx.TimeoutException and the other
\* subclasses of httpx.RequestError)
GeoStatusCodes == {200, 201, 204, 301, 400, 404, 409, 422, 500, 502, 503}
GeoTimeouts == {"ConnectTimeout", "ReadTimeout"}
GeoTransportErrors == {"ConnectError", "ReadError", "RemoteProtocolError"}
GeoPatchOutcomes ==
    [kind : {"response"}, status : GeoStatusCodes] \cup
    [kind : GeoTimeouts \cup GeoTransportErrors, status : {0}]

\* bool(v) is False: None and the empty string
GeoFalsy(v) == v = None \/ v = ""

\* isinstance(v, str)
GeoIsStr(v) == v # None /\ v \notin IntTokens

\* response.raise_for_status(): 2xx passes, 4xx and 5xx raise
\* HTTPStatusError; for the other codes the library version decides
\* (raises_on_other)
RaisesHttpStatusError(status, raises_on_other) ==
    IF status >= 200 /\ status < 300 THEN FALSE
    ELSE IF status >= 400 THEN TRUE
    ELSE raises_on_other

\* faulty variant of ClassifyStatus: every error status is Permanent
ClassifyStatusAllPermanent(status) == "permanent"

\* except httpx.HTTPStatusError: status_code >= 500 is Retryable, the rest
\* Permanent
ClassifyStatus(status) == IF status >= 500 THEN "retryable" ELSE "permanent"

\* the try block around the PATCH and its except clauses
PatchResult(outcome, raises_on_other) ==
    IF outcome.kind \in GeoTimeouts THEN "retryable"
    ELSE IF outcome.kind = "response"
    THEN IF RaisesHttpStatusError(outcome.status, raises_on_other)
         THEN ClassifyStatus(outcome.status)
         ELSE "returned"
    ELSE "retryable"

\* no PATCH was made
NoPatch == [kind |-> "none", status |-> 0]

NoGeoRequest ==
    [event |-> [customer_id |-> None, address |-> None], geocoded |-> 0,
     patches |-> <<>>, outcome |-> NoPatch, result |-> "none"]

GeoInit == geo_req = NoGeoRequest

\* handle_customer_created on an event that fails the validation: the
\* PermanentError is raised before the geocoder and the PATCH
HandleCustomerCreatedInvalid(event) ==
    /\ UNCHANGED notGeo
    /\ \/ GeoFalsy(event.customer_id) \/ GeoFalsy(event.address)
       \/ ~GeoIsStr(event.customer_id) \/ ~GeoIsStr(event.address)
    /\ geo_req' = [event |-> event, geocoded |-> 0, patches |-> <<>>,
                   outcome |-> NoPatch, result |-> "permanent"]

\* handle_customer_created on a valid event: one geocoder call, one PATCH of
\* the coordinates, and the classification of its outcome
HandleCustomerCreated(event, outcome, raises_on_other) ==
    /\ UNCHANGED notGeo
    /\ ~GeoFalsy(event.customer_id) /\ ~GeoFalsy(event.address)
    /\ GeoIsStr(event.customer_id) /\ GeoIsStr(event.address)
    /\ geo_req' = [event |-> event, geocoded |-> 1,
                   patches |-> <<[customer_id |-> event.customer_id,
                                  latitude |-> "-33.8688",
                                  longitude |-> "151.2093"]>>,
                   outcome |-> outcome,
                   result |-> PatchResult(outcome, raises_on_other)]

GeoNext ==
    \/ \E event \in GeoEvents : HandleCustomerCreatedInvalid(event)
    \/ \E event \in GeoEvents, outcome \in GeoPatchOutcomes, raises_on_other \in BOOLEAN :
          HandleCustomerCreated(event, outcome, raises_on_other)

(***************************************************************************)
(* Login: apps/identity-service/users/views.py (login_view) and            *)
(* users/models.py                                                         *)
(***************************************************************************)

\* the addresses accounts are registered under
AccountEmails == {"a@test.com", "b@test.com"}
\* the passwords accounts are created with (None: no usable password)
AccountPasswords == {None, "pw1"}

\* the email and password of a login request (None: the field is missing)
LoginEmails == {None, ""} \cup AccountEmails
LoginPasswords == {None, "", "pw1", "pw2"}

NoAccount == [exists |-> FALSE, password |-> "", is_active |-> FALSE]

\* user.set_password(raw): the hash stored, or the marker of an unusable
\* password for None
make_password(raw) == IF raw = None THEN <<"!">> ELSE <<"pbkdf2_sha256", raw>>

\* user.check_password(raw): False for an unusable password
check_password(user, raw) ==
    /\ user.password # <<"!">>
    /\ user.password = make_password(raw)

\* User.objects.get(email=email): the row, or NoAccount for DoesNotExist
GetUser(email) == IF email \in AccountEmails THEN accounts[email] ELSE NoAccount

\* the user create_jwt_token is called with
TokenUser(email) ==
    [id |-> "u-1", email |-> email, role |-> "USER", company |-> NoCompany]

LoginResponse(status, error, token) ==
    [status |-> status, error |-> error, token |-> token]

\* faulty variant of login_view: the disabled account is reported before the
\* password is checked
login_view_active_first(email, password, now) ==
    LET user == GetUser(email)
    IN  IF Falsy(email) \/ Falsy(password)
        THEN LoginResponse(400, "Email and password are required", NoToken)
        ELSE IF ~user.exists
        THEN LoginResponse(401, "Invalid credentials", NoToken)
        ELSE IF ~user.is_active
        THEN LoginResponse(403, "User account is disabled", NoToken)
        ELSE IF ~check_password(user, password)
        THEN LoginResponse(401, "Invalid credentials", NoToken)
        ELSE LoginResponse(200, "none", create_jwt_token(TokenUser(email), now))

\* login_view: the response to a request at time now
login_view(email, password, now) ==
    LET user == GetUser(email)
    IN  IF Falsy(email) \/ Falsy(password)
        THEN LoginResponse(400, "Email and password are required", NoToken)
        ELSE IF ~user.exists
        THEN LoginResponse(401, "Invalid credentials", NoToken)
        ELSE IF ~check_password(user, password)
        THEN LoginResponse(401, "Invalid credentials", NoToken)
        ELSE IF ~user.is_active
        THEN LoginResponse(403, "User account is disabled", NoToken)
        ELSE LoginResponse(200, "none", create_jwt_token(TokenUser(email), now))

NoLoginRequest ==
    [email |-> None, password |-> None, user |-> NoAccount,
     response |-> LoginResponse(0, "none", NoToken)]

LoginInit ==
    /\ accounts = [e \in AccountEmails |-> NoAccount]
    /\ login_req = NoLoginRequest

\* UserManager.create_user: a new, active account
CreateUser(email, password) ==
    /\ UNCHANGED notLogin
    /\ ~accounts[email].exists
    /\ accounts' = [accounts EXCEPT ![email] =
                       [exists |-> TRUE, password |-> make_password(password),
                        is_active |-> TRUE]]
    /\ UNCHANGED login_req

\* the admin site disables or enables an account
SetActive(email, is_active) ==
    /\ UNCHANGED notLogin
    /\ accounts[email].exists
    /\ accounts' = [accounts EXCEPT ![email].is_active = is_active]
    /\ UNCHANGED login_req

\* a POST to login_view
LoginView(email, password, now) ==
    /\ UNCHANGED notLogin
    /\ login_req' = [email |-> email, password |-> password,
                     user |-> GetUser(email),
                     response |-> login_view(email, password, now)]
    /\ UNCHANGED accounts

LoginNext ==
    \/ \E email \in AccountEmails, password \in AccountPasswords :
          CreateUser(email, password)
    \/ \E email \in AccountEmails, is_active \in BOOLEAN :
          SetActive(email, is_active)
    \/ \E email \in LoginEmails, password \in LoginPasswords, now \in LoginTimes :
          LoginView(email, password, now)

(***************************************************************************)
(* Notification schema: apps/notification-service/notifications/schema.py  *)
(* and models.py                                                           *)
(*                                                                         *)
(* Rows are numbered in the order of their creation, so a larger id is a   *)
(* later created_at.                                                       *)
(***************************************************************************)

\* number of Notification rows
MaxNotifications == 2

\* the visibility lists the handler stores
InboxVisibility == {<<>>, <<"B">>, <<"X">>}

\* the principals that query the schema
InboxPrincipals ==
    {AnonymousUser,
     AuthenticatedUser("u-1", "u1@test.com", "SYSTEM_ADMIN", NoCompany, <<>>),
     AuthenticatedUser("u-1", "u1@test.com", "COMPANY_ADMIN", "A", <<"A", "B">>),
     AuthenticatedUser("u-1", "u1@test.com", "USER", "X", <<"X">>),
     AuthenticatedUser("u-1", "u1@test.com", "USER", "A", <<>>)}

\* the limit argument of the notifications query (default 20)
InboxLimits == {1, 20}

\* faulty variant of visible_notifications: an empty scope is no filter
visible_notifications_empty_is_all(user) ==
    IF ~user.is_authenticated THEN {}
    ELSE IF user.role = "SYSTEM_ADMIN" \/ user.visible_company_ids = <<>>
    THEN notifications
    ELSE {n \in notifications :
            \E i \in 1 .. Len(user.visible_company_ids) :
                JsonContains(n.visible_to_company_ids, user.visible_company_ids[i])}

\* the query set the three resolvers build: everything for SYSTEM_ADMIN,
\* nothing for an unauthenticated caller or an empty scope, otherwise the
\* rows whose list contains one of the user's companies
visible_notifications(user) ==
    IF ~user.is_authenticated THEN {}
    ELSE IF user.role = "SYSTEM_ADMIN" THEN notifications
    ELSE IF user.visible_company_ids = <<>> THEN {}
    ELSE {n \in notifications :
            \E i \in 1 .. Len(user.visible_company_ids) :
                JsonContains(n.visible_to_company_ids, user.visible_company_ids[i])}

\* Notification.is_read_by(user_id)
is_read_by(n, user_id) == JsonContains(n.read_by_user_ids, user_id)

\* order_by("-created_at"): the ids of the rows, newest first
RECURSIVE NewestFirst(_)
NewestFirst(rows) ==
    IF rows = {} THEN <<>>
    ELSE LET newest == CHOOSE n \in rows : \A m \in rows : m.id <= n.id
         IN  <<newest.id>> \o NewestFirst(rows \ {newest})

\* Query.resolve_notifications
resolve_notifications(user, limit, unread_only) ==
    LET qs == IF unread_only
              THEN {n \in visible_notifications(user) : ~is_read_by(n, user.user_id)}
              ELSE visible_notifications(user)
    IN  SubSeq(NewestFirst(qs), 1, Min(limit, Cardinality(qs)))

\* Query.resolve_unread_notification_count
resolve_unread_notification_count(user) ==
    Cardinality({n \in visible_notifications(user) : ~is_read_by(n, user.user_id)})

\* the exception MarkNotificationRead.mutate raises, "none" when the row is
\* found
MarkError(user, notification_id) ==
    IF ~user.is_authenticated THEN "Authentication required"
    ELSE IF user.role # "SYSTEM_ADMIN" /\ user.visible_company_ids = <<>>
    THEN "No company access"
    ELSE IF \E n \in visible_notifications(user) : n.id = notification_id
    THEN "none"
    ELSE "Notification not found or not accessible"

\* Notification.mark_read_by(user_id): appended unless present
mark_read_by(n, user_id) ==
    IF is_read_by(n, user_id) THEN n
    ELSE [n EXCEPT !.read_by_user_ids = Append(@, user_id)]

NoInboxRequest ==
    [kind |-> "none", user |-> AnonymousUser, id |-> 0, limit |-> 0,
     unread_only |-> FALSE, list |-> <<>>, count |-> 0, error |-> "none",
     before |-> {}]

InboxInit ==
    /\ notifications = {}
    /\ inbox_req = NoInboxRequest

\* Notification.objects.create by the event handler (the record of the last
\* request is about the rows before it, and is dropped)
CreateNotification(visibility_list) ==
    /\ UNCHANGED notInbox
    /\ Cardinality(notifications) < MaxNotifications
    /\ notifications' = notifications \cup
          {[id |-> Cardinality(notifications) + 1,
            visible_to_company_ids |-> visibility_list,
            read_by_user_ids |-> <<>>]}
    /\ inbox_req' = NoInboxRequest

\* the notifications query
QueryNotifications(user, limit, unread_only) ==
    /\ UNCHANGED notInbox
    /\ inbox_req' = [NoInboxRequest EXCEPT
                        !.kind = "list", !.user = user, !.limit = limit,
                        !.unread_only = unread_only,
                        !.list = resolve_notifications(user, limit, unread_only),
                        !.before = notifications]
    /\ UNCHANGED notifications

\* the unreadNotificationCount query
QueryUnreadNotificationCount(user) ==
    /\ UNCHANGED notInbox
    /\ inbox_req' = [NoInboxRequest EXCEPT
                        !.kind = "count", !.user = user,
                        !.count = resolve_unread_notification_count(user),
                        !.before = notifications]
    /\ UNCHANGED notifications

\* the markNotificationRead mutation
MarkNotificationRead(user, notification_id) ==
    /\ UNCHANGED notInbox
    /\ inbox_req' = [NoInboxRequest EXCEPT
                        !.kind = "mark", !.user = user, !.id = notification_id,
                        !.error = MarkError(user, notification_id),
                        !.before = notifications]
    /\ notifications' =
          IF MarkError(user, notification_id) = "none"
          THEN {IF n.id = notification_id THEN mark_read_by(n, user.user_id) ELSE n :
                   n \in notifications}
          ELSE notifications

InboxNext ==
    \/ \E visibility_list \in InboxVisibility : CreateNotification(visibility_list)
    \/ \E user \in InboxPrincipals, limit \in InboxLimits, unread_only \in BOOLEAN :
          QueryNotifications(user, limit, unread_only)
    \/ \E user \in InboxPrincipals : QueryUnreadNotificationCount(user)
    \/ \E user \in InboxPrincipals, notification_id \in 1 .. MaxNotifications :
          MarkNotificationRead(user, notification_id)

(***************************************************************************)
(* Specifications                                                          *)
(***************************************************************************)

(***************************************************************************)
(* The retry controller as a function of the handler's behaviour:          *)
(* KafkaConsumer._process_with_retry, one call as a whole                  *)
(***************************************************************************)

\* what the handler can do in one invocation: return, raise RetryableError,
\* raise PermanentError, raise any other Exception
HandlerOutcomes == {"returned", "retryable", "permanent", "other"}

\* constructor arguments retry_backoff_base and retry_backoff_max (seconds)
BackoffBases == {1, 2}
BackoffCaps == {3, 60}

Configs ==
    [max_retries : 0 .. MaxRetriesBound,
     retry_backoff_base : BackoffBases,
     retry_backoff_max : BackoffCaps]

\* the constructor's defaults, with the retry bound of the meter
DefaultConfig ==
    [max_retries |-> 0, retry_backoff_base |-> retry_backoff_base,
     retry_backoff_max |-> retry_backoff_max]

\* a handler behaviour: what the handler does on each attempt of one call
Behaviours(cfg) == [1 .. (cfg.max_retries + 1) -> HandlerOutcomes]

\* the controller at the entry of _process_with_retry
Enter(metrics0) ==
    [attempt |-> 0, invocations |-> 0, sleeps |-> <<>>, sent |-> <<>>,
     metrics |-> metrics0, lines |-> 0, result |-> "running"]

\* faulty variant of backoff: the cap is not applied
backoff_uncapped(cfg, a) == cfg.retry_backoff_base * Pow2(a)

\* faulty variant of backoff: the wait does not grow with the attempt
backoff_flat(cfg, a) == Min(cfg.retry_backoff_base, cfg.retry_backoff_max)

\* backoff = min(self.retry_backoff_base * (2 ** attempt), self.retry_backoff_max)
backoff(cfg, a) == Min(cfg.retry_backoff_base * Pow2(a), cfg.retry_backoff_max)

\* if self.metrics['messages_processed_total'] % 100 == 0
MetricsEvery == 100

\* the handler returned: processed is counted, the metrics are logged at
\* every multiple of MetricsEvery, True is returned
SuccessBranch(cfg, st) ==
    LET processed == st.metrics.messages_processed_total + 1
    IN  [st EXCEPT !.metrics.messages_processed_total = processed,
                   !.lines = IF processed % MetricsEvery = 0 THEN @ + 1 ELSE @,
                   !.result = "true"]

\* except RetryableError
RetryableBranch(cfg, st) ==
    IF st.attempt < cfg.max_retries
    THEN [st EXCEPT !.metrics.messages_retried_total = @ + 1,
                    !.sleeps = Append(@, backoff(cfg, st.attempt)),
                    !.attempt = @ + 1]
    ELSE [st EXCEPT !.metrics.messages_retried_total = @ + 1,
                    !.metrics.messages_dlq_total = @ + 1,
                    !.sent = Append(@, [retry_count |-> cfg.max_retries]),
                    !.result = "false"]

\* except PermanentError
PermanentBranch(cfg, st) ==
    [st EXCEPT !.metrics.messages_failed_total = @ + 1,
               !.metrics.messages_dlq_total = @ + 1,
               !.sent = Append(@, [retry_count |-> 0]),
               !.result = "false"]

\* faulty variant of ExceptionBranch: an unknown exception is not retried
ExceptionBranchNoRetry(cfg, st) ==
    [st EXCEPT !.metrics.messages_retried_total = @ + 1,
               !.metrics.messages_dlq_total = @ + 1,
               !.sent = Append(@, [retry_count |-> cfg.max_retries]),
               !.result = "false"]

\* except Exception
ExceptionBranch(cfg, st) ==
    IF st.attempt < cfg.max_retries
    THEN [st EXCEPT !.metrics.messages_retried_total = @ + 1,
                    !.sleeps = Append(@, backoff(cfg, st.attempt)),
                    !.attempt = @ + 1]
    ELSE [st EXCEPT !.metrics.messages_retried_total = @ + 1,
                    !.metrics.messages_dlq_total = @ + 1,
                    !.sent = Append(@, [retry_count |-> cfg.max_retries]),
                    !.result = "false"]

\* for attempt in range(self.max_retries + 1): try: self.handler(value) ...
\* and the return False after the loop
RECURSIVE process_with_retry(_, _, _)
process_with_retry(cfg, behaviour, st) ==
    IF st.result # "running" THEN st
    ELSE IF st.attempt > cfg.max_retries THEN [st EXCEPT !.result = "false"]
    ELSE LET outcome == behaviour[st.attempt + 1]
             inv == [st EXCEPT !.invocations = @ + 1]
         IN  process_with_retry(cfg, behaviour,
                 CASE outcome = "returned" -> SuccessBranch(cfg, inv)
                   [] outcome = "retryable" -> RetryableBranch(cfg, inv)
                   [] outcome = "permanent" -> PermanentBranch(cfg, inv)
                   [] OTHER -> ExceptionBranch(cfg, inv))

NoRetryRequest ==
    [done |-> FALSE, cfg |-> DefaultConfig, behaviour |-> <<"returned">>,
     out |-> Enter(ZeroMetrics)]

\* number of successful messages one consumer is followed for
MaxProcessed == 200
\* number of failed messages one consumer is followed for
MaxFailed == 1

NoMeter == [metrics |-> ZeroMetrics, lines |-> 0, stops |-> 0]

RetryInit ==
    /\ retry_req = NoRetryRequest
    /\ meter = NoMeter

\* one call of _process_with_retry on a consumer constructed with cfg, with
\* a handler that behaves as given
ProcessWithRetry(cfg, behaviour) ==
    /\ UNCHANGED notRetry
    /\ retry_req' = [done |-> TRUE, cfg |-> cfg, behaviour |-> behaviour,
                     out |-> process_with_retry(cfg, behaviour,
                                                Enter(ZeroMetrics))]
    /\ UNCHANGED meter

RetryNext ==
    \E cfg \in Configs : \E behaviour \in Behaviours(cfg) :
        ProcessWithRetry(cfg, behaviour)

\* one consumer, message after message: a call of _process_with_retry whose
\* handler returns, or fails for good
MeterProcess(outcome) ==
    /\ UNCHANGED notRetry
    /\ meter.stops = 0
    /\ IF outcome = "returned"
       THEN meter.metrics.messages_processed_total < MaxProcessed
       ELSE meter.metrics.messages_dlq_total < MaxFailed
    /\ LET out == process_with_retry(DefaultConfig, <<outcome>>,
                                     Enter(meter.metrics))
       IN  meter' = [meter EXCEPT !.metrics = out.metrics,
                                  !.lines = @ + out.lines]
    /\ UNCHANGED retry_req

\* stop(): self._log_metrics() and the rest of the method
MeterStop ==
    /\ UNCHANGED notRetry
    /\ meter.stops < MaxStops
    /\ meter' = [meter EXCEPT !.stops = @ + 1, !.lines = @ + 1]
    /\ UNCHANGED retry_req

MeterNext ==
    \/ \E outcome \in HandlerOutcomes : MeterProcess(outcome)
    \/ MeterStop

(***************************************************************************)
(* Scoped reader of the shared library: shared_python/managers.py          *)
(***************************************************************************)

\* the rows of a model managed by VisibilityScopedManager, and the companies
\* that can be on a row's visibility_list
ScopedRows == {"r1", "r2"}
ScopedCompanies == {"A", "B"}
\* a table: the visibility_list of each row
ScopedTables == [ScopedRows -> SUBSET ScopedCompanies]
\* the visible_company_ids and user_role arguments (None: role not given)
ScopedIdLists == {<<>>, <<"A">>, <<"A", "B">>, <<"X">>}
ScopedRoles == Roles \cup {None}

\* for_user: no filter if the list is empty or the role is SYSTEM_ADMIN,
\* otherwise filter(visibility_list__id__in=visible_company_ids).distinct()
for_user(table, visible_company_ids, user_role) ==
    IF visible_company_ids = <<>> \/ user_role = "SYSTEM_ADMIN"
    THEN ScopedRows
    ELSE {r \in ScopedRows : table[r] \cap SeqToSet(visible_company_ids) # {}}

NoScopedRequest ==
    [done |-> FALSE, table |-> [r \in ScopedRows |-> {}],
     visible_company_ids |-> <<>>, user_role |-> None, rows |-> {}]

ScopedInit == scoped_req = NoScopedRequest

\* Model.objects.for_user(visible_company_ids, user_role) on a table
ForUser(table, visible_company_ids, user_role) ==
    /\ UNCHANGED notScoped
    /\ scoped_req' = [done |-> TRUE, table |-> table,
                      visible_company_ids |-> visible_company_ids,
                      user_role |-> user_role,
                      rows |-> for_user(table, visible_company_ids, user_role)]

ScopedNext ==
    \E table \in ScopedTables : \E visible_company_ids \in ScopedIdLists :
        \E user_role \in ScopedRoles :
            ForUser(table, visible_company_ids, user_role)

(***************************************************************************)
(* Company.get_descendant_ids step by step, on a hierarchy that is created *)
(* and changed: apps/identity-service/companies/models.py                  *)
(***************************************************************************)

\* number of loop iterations one traversal is followed for
MaxVisits == 4

NoWalk ==
    [active |-> FALSE, returned |-> FALSE, company |-> NoCompany,
     queue |-> <<>>, descendant_ids |-> <<>>]

WalkInit == walk = NoWalk

\* descendant_ids = []; queue = list(self.children.values_list('id', flat=True))
WalkStart(c) ==
    /\ UNCHANGED notWalk
    /\ ~walk.active
    /\ c \in companies
    /\ walk' = [active |-> TRUE, returned |-> FALSE, company |-> c,
                queue |-> ChildrenOf(c), descendant_ids |-> <<>>]

\* one iteration of while queue: pop the head, append it to the result,
\* extend the queue by the companies whose parent it is
WalkStep ==
    /\ UNCHANGED notWalk
    /\ walk.active
    /\ walk.queue # <<>>
    /\ Len(walk.descendant_ids) < MaxVisits
    /\ LET child_id == Head(walk.queue)
       IN  walk' = [walk EXCEPT
                       !.queue = Tail(@) \o ChildrenOf(child_id),
                       !.descendant_ids = Append(@, child_id)]

\* the queue is empty: return descendant_ids
WalkReturn ==
    /\ UNCHANGED notWalk
    /\ walk.active
    /\ walk.queue = <<>>
    /\ walk' = [walk EXCEPT !.active = FALSE, !.returned = TRUE]

\* creations and changes of parent, and traversals between them
WalkNext ==
    \/ /\ ~walk.active
       /\ HierarchyNext
    \/ \E c \in CompanyIds : WalkStart(c)
    \/ WalkStep
    \/ WalkReturn

(***************************************************************************)
(* markNotificationRead by several users on one notification, request by   *)
(* request: notifications/schema.py and notifications/models.py            *)
(***************************************************************************)

\* the users who mark the notification, and the calls each of them makes
MarkUsers == {"u1", "u2", "u3"}
MaxMarks == 2

MarkInit ==
    /\ mark_row = <<>>
    /\ mark_call = [u \in MarkUsers |->
                       [pc |-> "idle", loaded |-> <<>>, finished |-> 0]]

\* mutate up to Notification.objects.get(...): the request of user u loads
\* the row into its own model instance
MarkGet(u) ==
    /\ UNCHANGED notMark
    /\ mark_call[u].pc = "idle"
    /\ mark_call[u].finished < MaxMarks
    /\ mark_call' = [mark_call EXCEPT ![u].pc = "loaded",
                                      ![u].loaded = mark_row]
    /\ UNCHANGED mark_row

\* notification.mark_read_by(user.id): if the id is not in the list the
\* instance holds, append it and save() the instance, which writes the
\* instance's list over the row's
MarkReadBy(u) ==
    /\ UNCHANGED notMark
    /\ mark_call[u].pc = "loaded"
    /\ mark_row' = IF u \in SeqToSet(mark_call[u].loaded)
                   THEN mark_row
                   ELSE Append(mark_call[u].loaded, u)
    /\ mark_call' = [mark_call EXCEPT ![u].pc = "idle",
                                      ![u].finished = @ + 1]

MarkNext ==
    \E u \in MarkUsers :
        \/ MarkGet(u)
        \/ MarkReadBy(u)

\* the parts other than the consumer runtime, in their initial state
OthersInit ==
    /\ AuditInit
    /\ NotifInit
    /\ IdentityInit
    /\ CrmInit
    /\ TokenInit
    /\ DlqInit
    /\ GeoInit
    /\ CoordInit
    /\ LoginInit
    /\ InboxInit
    /\ RetryInit
    /\ ScopedInit
    /\ WalkInit
    /\ MarkInit

Init ==
    /\ ConsumerInit
    /\ OthersInit

Next == ConsumerNext

Spec == Init /\ [][Next]_vars

\* the consumer runtime over several process lifetimes
NextRestart ==
    \/ ConsumerNext
    \/ Restart

SpecRestart == Init /\ [][NextRestart]_vars

\* one process lifetime, with further calls of stop() after the first
NextStop ==
    \/ ConsumerNext
    \/ \E close_outcome \in {"returned", "RuntimeError"} : StopAgain(close_outcome)

SpecStop == Init /\ [][NextStop]_vars

\* one process lifetime in which stop() is also called as a method, without
\* the process being ended
NextCancel ==
    \/ ConsumerNext
    \/ StopCall
    \/ StartReturns

SpecCancel == Init /\ [][NextCancel]_vars

InitIdle ==
    /\ ConsumerIdle
    /\ OthersInit

SpecAudit == InitIdle /\ [][AuditNext]_vars

SpecNotif == InitIdle /\ [][NotifNext]_vars

SpecIdentity == InitIdle /\ [][IdentityNext]_vars

SpecCrm == InitIdle /\ [][CrmNext]_vars

SpecHierarchy == InitIdle /\ [][HierarchyNext]_vars

SpecToken == InitIdle /\ [][TokenNext]_vars

SpecVerify == InitIdle /\ [][VerifyNext]_vars

SpecDlq == InitIdle /\ [][DlqNext]_vars

SpecGeo == InitIdle /\ [][GeoNext]_vars

SpecCoord == InitIdle /\ [][CoordNext]_vars

SpecCreate == InitIdle /\ [][CreateNext]_vars

SpecLogin == InitIdle /\ [][LoginNext]_vars

SpecInbox == InitIdle /\ [][InboxNext]_vars

SpecRetry == InitIdle /\ [][RetryNext]_vars

SpecScoped == InitIdle /\ [][ScopedNext]_vars

SpecWalk == InitIdle /\ [][WalkNext]_vars

SpecMark == InitIdle /\ [][MarkNext]_vars

SpecMeter == InitIdle /\ [][MeterNext]_vars

(***************************************************************************)
(* Claims about the consumer runtime (checked under Spec)                  *)
(***************************************************************************)

\* C1: offset advance. Every record below a partition's committed offset has
\* been handled successfully or has an acknowledged DLQ record; no commit
\* covers a record that reached neither outcome.
C1_OffsetAdvance ==
    \A p \in Partitions : \A o \in Offsets :
        o < committed[p] => (hist[p][o].succeeded \/ DlqAcked(p, o))

\* C2: commit on terminal outcome. When a loop iteration has finished, the
\* record's offset is committed if the retry controller ended in handler
\* success or in the record being routed to the DLQ, and is not committed
\* otherwise.
C2_CommitOnTerminal ==
    (pc = "poll" /\ last.kind # "none") =>
        IF last.kind \in {"success", "dlq"}
        THEN committed[last.p] > last.o
        ELSE committed[last.p] <= last.o

\* C3: DLQ totality. Every record whose handler raised Permanent, or raised
\* Retryable on all max_retries + 1 attempts, has exactly one record on the
\* DLQ topic, across stops and restarts. (A record whose latest DLQ write
\* failed is left out here; C5 is about it.)
C3_DlqExactlyOnce ==
    \A p \in Partitions : \A o \in Offsets :
        (hist[p][o].failedTerminal /\ ~hist[p][o].dlqFailed)
            => DlqCount(p, o) = 1

\* C4: retry bound. One call of the retry controller invokes the handler at
\* most max_retries + 1 times, whatever the handler does.
C4_RetryBound == calls <= max_retries + 1

\* witness of C4: a controller call that used all max_retries + 1 attempts,
\* with at least one retry, and ended in the DLQ
C4_Witness ==
    /\ max_retries >= 1
    /\ pc = "poll"
    /\ last.kind = "dlq"
    /\ calls = max_retries + 1

\* C5: DLQ producer failure. A record whose DLQ write failed (and that has
\* not been processed again since) stays uncommitted: no later commit covers
\* it.
C5_DlqFailureUncommitted ==
    \A p \in Partitions : \A o \in Offsets :
        hist[p][o].dlqFailed => committed[p] <= o

(***************************************************************************)
(* Claims about the audit handler (checked under SpecAudit)                *)
(***************************************************************************)

C8_ConstraintViolationNotError ==
    audit_last.cause = "integrity" => audit_last.result = "ok"

(***************************************************************************)
(* Claims about the notification handler (checked under SpecNotif)         *)
(***************************************************************************)

\* C7: at-most-once effect. However often the same crm.customer.created
\* record is delivered to the notification handler, at most one notification
\* row exists for it.
C7_NotifAtMostOnce ==
    \A n \in BagToSet(notif_store) : notif_store[n] <= 1

(***************************************************************************)
(* Claims about one call of the retry controller (checked under Spec)      *)
(***************************************************************************)

\* the call of _process_with_retry has ended (returned or raised)
CallEnded == call.result \in {"true", "false", "raised"}

\* what the call has added to a counter
Delta(counter) == metrics[counter] - call.metrics0[counter]

\* C16: Permanent short-circuits. When the handler raises Permanent on its
\* first attempt, the controller has invoked it once, slept no backoff, sent
\* one DLQ record with retry_count = 0, added 1 to failed and to dlq, and
\* left processed and retried unchanged.
C16_PermanentShortCircuit ==
    (CallEnded /\ call.trail = <<"permanent">>) =>
        /\ calls = 1
        /\ sleeps = <<>>
        /\ Len(call.sent) = 1
        /\ call.sent[1].retry_count = 0
        /\ Delta("messages_failed_total") = 1
        /\ Delta("messages_dlq_total") = 1
        /\ Delta("messages_processed_total") = 0
        /\ Delta("messages_retried_total") = 0

\* witness of C16: a consumer that may retry routed a Permanent failure
C16_Witness ==
    /\ max_retries >= 1
    /\ call.trail = <<"permanent">>
    /\ call.result = "false"
    /\ DlqCount(last.p, last.o) = 1

\* every handler invocation of the call raised Retryable
AllRetryable == \A i \in 1 .. Len(call.trail) : call.trail[i] = "retryable"

\* C17: Retryable exhaustion. When the handler raises Retryable on every
\* attempt, the controller has invoked it max_retries + 1 times, sent one DLQ
\* record with retry_count = max_retries, and added max_retries + 1 to
\* retried, 1 to dlq and nothing to failed and processed.
C17_RetryableExhaustion ==
    (CallEnded /\ AllRetryable) =>
        /\ calls = max_retries + 1
        /\ Len(call.trail) = max_retries + 1
        /\ Len(call.sent) = 1
        /\ call.sent[1].retry_count = max_retries
        /\ Delta("messages_retried_total") = max_retries + 1
        /\ Delta("messages_dlq_total") = 1
        /\ Delta("messages_failed_total") = 0
        /\ Delta("messages_processed_total") = 0

\* witness of C17: max_retries = 2, three invocations, retry_count 2
C17_Witness ==
    /\ max_retries = 2
    /\ call.trail = <<"retryable", "retryable", "retryable">>
    /\ call.result = "false"
    /\ calls = 3
    /\ call.sent = <<[retry_count |-> 2, out |-> "acked"]>>

\* the handler raised Retryable on every invocation of the call but the last,
\* and then returned
RetriedThenReturned ==
    /\ call.result = "true"
    /\ \A i \in 1 .. (Len(call.trail) - 1) : call.trail[i] = "retryable"

\* C18: successful retry. When the handler raises Retryable k times
\* (k <= max_retries) and then returns, the controller has invoked it k + 1
\* times and reported success, added 1 to processed and k to retried, sent no
\* DLQ record, and the commit that follows covers the message's offset.
C18_SuccessfulRetry ==
    RetriedThenReturned =>
        /\ Len(call.trail) <= max_retries + 1
        /\ calls = Len(call.trail)
        /\ Delta("messages_processed_total") = 1
        /\ Delta("messages_retried_total") = Len(call.trail) - 1
        /\ Delta("messages_failed_total") = 0
        /\ Delta("messages_dlq_total") = 0
        /\ call.sent = <<>>
        /\ (pc = "poll" /\ last.kind = "success") =>
              /\ committed[last.p] > last.o
              /\ DlqCount(last.p, last.o) = 0

\* witness of C18: two Retryable failures, then success, committed
C18_Witness ==
    /\ call.trail = <<"retryable", "retryable", "returned">>
    /\ pc = "poll"
    /\ last.kind = "success"
    /\ calls = 3

\* C19: malformed payload. A polled record whose body is not valid JSON is
\* treated as a Permanent failure: it is routed to the DLQ (failed and dlq
\* counted) and so reaches a terminal outcome.
C19_MalformedIsPermanent ==
    last.kind = "decode_error" =>
        /\ hist[last.p][last.o].failedTerminal
        /\ metrics["messages_failed_total"] >= 1
        /\ metrics["messages_dlq_total"] >= 1

\* C20: per-partition FIFO. While the handler is invoked for a record, every
\* earlier record of its partition has been processed successfully or routed
\* to the DLQ.
C20_PartitionFifo ==
    pc = "attempt" =>
        \A o \in Offsets :
            o < cur[2] =>
                \/ hist[cur[1]][o].succeeded
                \/ hist[cur[1]][o].failedTerminal

(***************************************************************************)
(* Claims about visibility (checked under SpecCrm and SpecIdentity)        *)
(***************************************************************************)

\* P observes R: P is authenticated and is SYSTEM_ADMIN or P's scope
\* intersects R's visibility list
Observes(P, R) ==
    /\ P.is_authenticated
    /\ \/ P.role = "SYSTEM_ADMIN"
       \/ SeqToSet(P.visible_company_ids)
              \cap SeqToSet(R.visible_to_company_ids) # {}

\* C9: visibility soundness for customers. The customers query returns
\* exactly the customers the principal observes, the customer(id) query
\* returns the customer iff the principal observes it (so the two agree), and
\* an unauthenticated principal gets nothing.
C9_CustomerVisibility ==
    /\ crm_req.kind = "list" =>
          crm_req.result = {c \in customers : Observes(crm_req.user, c)}
    /\ crm_req.kind = "single" =>
          crm_req.result =
              {c \in customers : c.id = crm_req.id /\ Observes(crm_req.user, c)}
    /\ (crm_req.kind # "none" /\ ~crm_req.user.is_authenticated) =>
          crm_req.result = {}

\* witness of C9: a non-admin principal with scope {A, B} fetched a single
\* customer visible to B, while another customer, visible to X only, exists
C9_Witness ==
    /\ crm_req.kind = "single"
    /\ crm_req.user.role = "COMPANY_ADMIN"
    /\ crm_req.user.visible_company_ids = <<"A", "B">>
    /\ \E c \in crm_req.result : c.visible_to_company_ids = <<"B", "X">>
    /\ \E c \in customers : c.visible_to_company_ids = <<"X">>

\* descendants(c) as a set: the companies from which c is reached by
\* following parent
RECURSIVE HasAncestor(_, _, _)
HasAncestor(x, c, fuel) ==
    /\ fuel > 0
    /\ parent[x] # NoCompany
    /\ (parent[x] = c \/ HasAncestor(parent[x], c, fuel - 1))

Descendants(c) ==
    {x \in companies : HasAncestor(x, c, Cardinality(CompanyIds))}

\* C10: visibility scope by role. get_visible_company_ids returns the empty
\* set for SYSTEM_ADMIN, {own company} with the descendants of the own
\* company for COMPANY_ADMIN, {own company} for USER, and the empty set for a
\* non-admin without a company.
C10_VisibleScopeByRole ==
    ident_req.called =>
        SeqToSet(ident_req.result) =
            CASE ident_req.role = "SYSTEM_ADMIN" -> {}
              [] ident_req.company = NoCompany -> {}
              [] ident_req.role = "COMPANY_ADMIN" ->
                    {ident_req.company} \cup Descendants(ident_req.company)
              [] OTHER -> {ident_req.company}

NoDuplicates(q) == \A i, j \in 1 .. Len(q) : q[i] = q[j] => i = j

\* C13: hierarchy closure. In an acyclic hierarchy, T is in
\* get_visibility_scope(T), T is not in get_descendant_ids(T), and
\* get_descendant_ids(T) lists exactly the companies reachable from T through
\* the children relation, each once.
C13_HierarchyClosure ==
    ident_scope.called =>
        /\ ident_scope.company \in SeqToSet(ident_scope.scope)
        /\ ident_scope.company \notin SeqToSet(ident_scope.descendant_ids)
        /\ SeqToSet(ident_scope.descendant_ids) = Descendants(ident_scope.company)
        /\ NoDuplicates(ident_scope.descendant_ids)
        /\ SeqToSet(ident_scope.scope)
              = {ident_scope.company} \cup Descendants(ident_scope.company)

\* witness of C13: the scope of a company with a child and a grandchild
C13_Witness ==
    /\ ident_scope.called
    /\ Len(ident_scope.descendant_ids) = 2
    /\ parent[ident_scope.descendant_ids[1]] = ident_scope.company
    /\ parent[ident_scope.descendant_ids[2]] = ident_scope.descendant_ids[1]

\* C14: acyclic hierarchy. After any sequence of creations and changes of
\* parent, no company is its own ancestor (a change that would make one is
\* rejected).
C14_AcyclicHierarchy ==
    \A c \in companies : ~HasAncestor(c, c, Cardinality(CompanyIds))

(***************************************************************************)
(* Claims about tokens (checked under SpecToken and SpecVerify)            *)
(***************************************************************************)

\* C11: token round trip. The principal obtained by verifying, before its
\* expiry, the token issued at login carries the user_id, email, role and
\* company_id of the user who logged in and the visibility scope that user
\* had at login.
C11_TokenRoundTrip ==
    (token_check.kind = "issued"
        /\ token_check.now < token_login.now + JWT_EXPIRATION_HOURS) =>
        /\ token_check.result.outcome = "returned"
        /\ token_check.result.user.is_authenticated
        /\ token_check.result.user.user_id = token_login.user.id
        /\ token_check.result.user.email = token_login.user.email
        /\ token_check.result.user.role = token_login.user.role
        /\ token_check.result.user.company_id = token_login.user.company
        /\ SeqToSet(token_check.result.user.visible_company_ids)
              = SeqToSet(token_login.scope)

\* a token whose claims are well-formed: user_id present and a UUID,
\* company_id a UUID when present
WellFormed(payload) ==
    /\ "user_id" \in DOMAIN payload
    /\ payload["user_id"] \in UuidTokens
    /\ "company_id" \in DOMAIN payload => payload["company_id"] \in UuidTokens

\* a token the verifier is to accept at time now
Acceptable(token, now) ==
    /\ token.sig = JWT_SECRET_KEY
    /\ "exp" \in DOMAIN token.payload
    /\ token.payload["exp"] > now
    /\ WellFormed(token.payload)

\* C12: token verification. get_user_from_token yields an authenticated
\* principal only for a token with a valid signature, an exp in the future
\* and well-formed claims; for every other token it yields the anonymous
\* principal (not authenticated, not SYSTEM_ADMIN).
C12_TokenVerification ==
    token_check.kind = "presented" =>
        /\ token_check.result.outcome = "returned"
        /\ token_check.result.user.is_authenticated
              => Acceptable(token_check.token, token_check.now)
        /\ ~Acceptable(token_check.token, token_check.now)
              => token_check.result.user = AnonymousUser

(***************************************************************************)
(* Claims about the DLQ envelope (checked under SpecDlq)                   *)
(***************************************************************************)

DlqFields ==
    {"original_topic", "original_partition", "original_offset",
     "original_payload", "failure_reason", "retry_count", "failed_at",
     "consumer_group"}

\* C21: DLQ envelope shape. A call of send_to_dlq for (topic, partition,
\* offset) under group G makes one produce request, on the topic
\* <topic>.dlq.<G> with the key <topic>:<partition>:<offset> and a value
\* holding the eight fields, each equal to its argument (failed_at to the
\* clock); an acknowledged request is one record on the topic.
C21_DlqEnvelopeShape ==
    dlq_req.result # "none" =>
        LET a == dlq_req.args
            r == dlq_req.produced[1]
        IN  /\ Len(dlq_req.produced) = 1
            /\ Len(dlq_req.records) <= 1
            /\ \A i \in 1 .. Len(dlq_req.records) : dlq_req.records[i] = r
            /\ r.topic = <<a[1], ".dlq.", a[7]>>
            /\ r.key = <<a[1], ":", ToString(a[2]), ":", ToString(a[3])>>
            /\ DOMAIN r.value = DlqFields
            /\ r.value.original_topic = a[1]
            /\ r.value.original_partition = a[2]
            /\ r.value.original_offset = a[3]
            /\ r.value.original_payload = a[4]
            /\ r.value.failure_reason = a[5]
            /\ r.value.retry_count = a[6]
            /\ r.value.consumer_group = a[7]
            /\ r.value.failed_at = dlq_req.now

\* witness of C21: crm.customer.created@(0,100) under audit-group
C21_Witness ==
    /\ dlq_req.result = "returned"
    /\ Len(dlq_req.records) = 1
    /\ dlq_req.records[1].topic = <<"crm.customer.created", ".dlq.", "audit-group">>
    /\ dlq_req.records[1].key = <<"crm.customer.created", ":", "0", ":", "100">>
    /\ dlq_req.records[1].value.original_offset = 100

(***************************************************************************)
(* Claims about the handlers' error classification                         *)
(* (C22, C23 checked under SpecAudit, C24 under SpecNotif)                 *)
(***************************************************************************)

\* C22: audit metadata validation. An invocation of the audit handler on an
\* event whose _topic is no string or whose _partition or _offset is no
\* integer ends with Permanent, whatever the values hold, and stores no row.
C22_AuditInvalidMetadataPermanent ==
    audit_last.cause = "invalid_metadata" =>
        /\ audit_last.result = "permanent"
        /\ audit_last.key = NoKey

\* C23: transient storage failures are Retryable. An invocation of the audit
\* handler whose query or insert fails in the storage layer (connection
\* reset, deadlock, timeout) ends with Retryable, whatever the text of the
\* error.
C23_TransientDbRetryable ==
    audit_last.cause = "db_error" => audit_last.result = "retryable"

\* C24: notification handler validation and effect. An invocation on an
\* event without customer_id or name, or whose visibility_list is no list,
\* ends with Permanent whatever the values hold and creates no row; an
\* invocation that returns has created a row for the record whose
\* visible_to_company_ids and related_entity_id are those of the event.
C24_NotifValidation ==
    /\ notif_last.cause \in {"missing_field", "not_a_list"} =>
          notif_last.result = "permanent"
    /\ notif_last.result = "ok" =>
          \E n \in BagToSet(notif_store) : n.src = notif_last.src

(***************************************************************************)
(* Claims about the geocode handler (checked under SpecGeo)                *)
(***************************************************************************)

\* the event passes the validation of the handler
GeoValid(event) ==
    /\ event.customer_id \notin {None, ""} \cup IntTokens
    /\ event.address \notin {None, ""} \cup IntTokens

\* C25: enrichment handler classification. An invocation on an event whose
\* customer_id or address is missing or no string ends with Permanent without
\* a geocoder call and without a PATCH; otherwise one PATCH is made and its
\* outcome decides: 2xx returns, 5xx is Retryable, 4xx is Permanent, a timeout
\* or another transport error is Retryable; every invocation ends by
\* returning, with Retryable or with Permanent.
C25_GeoClassification ==
    geo_req.result # "none" =>
        /\ geo_req.result \in {"returned", "retryable", "permanent"}
        /\ ~GeoValid(geo_req.event) =>
              /\ geo_req.result = "permanent"
              /\ geo_req.geocoded = 0
              /\ geo_req.patches = <<>>
        /\ GeoValid(geo_req.event) =>
              /\ Len(geo_req.patches) = 1
              /\ geo_req.patches[1].customer_id = geo_req.event.customer_id
              /\ geo_req.outcome.kind # "none"
              /\ geo_req.outcome.status \in {200, 201, 204} =>
                    geo_req.result = "returned"
              /\ geo_req.outcome.status \in {500, 502, 503} =>
                    geo_req.result = "retryable"
              /\ geo_req.outcome.status \in {400, 404, 409, 422} =>
                    geo_req.result = "permanent"
              /\ geo_req.outcome.kind \in GeoTimeouts \cup GeoTransportErrors =>
                    geo_req.result = "retryable"

\* witness of C25: a valid event whose PATCH was answered with 503
C25_Witness ==
    /\ geo_req.event = [customer_id |-> "uuid-1", address |-> "1 Main St"]
    /\ geo_req.outcome = [kind |-> "response", status |-> 503]
    /\ geo_req.result = "retryable"
    /\ Len(geo_req.patches) = 1

(***************************************************************************)
(* Claims about the internal coordinates endpoint (checked under SpecCoord)*)
(***************************************************************************)

\* the body is a JSON object whose latitude and longitude are numbers
WellFormedBody(request_body) ==
    /\ request_body.kind = "object"
    /\ DOMAIN request_body.data = CoordKeys
    /\ \A k \in CoordKeys : request_body.data[k] \in NumberTokens

\* the customer the last request named, as it is now
CoordTarget == {c \in customers : c.id = coord_req.customer_id}

\* C26: internal coordinates endpoint. The response is 404 when the customer
\* is absent, 400 for every malformed body, 200 on success; on 404 and 400 the
\* customer is as before, on 200 latitude, longitude and geocoded_at are set
\* and no other field has changed.
C26_CoordinatesEndpoint ==
    coord_req.status # 0 =>
        /\ coord_req.before = {} => coord_req.status = 404
        /\ (coord_req.before # {} /\ ~WellFormedBody(coord_req.body)) =>
              coord_req.status = 400
        /\ (coord_req.before # {} /\ WellFormedBody(coord_req.body)) =>
              coord_req.status = 200
        /\ coord_req.status # 200 => CoordTarget = coord_req.before
        /\ coord_req.status = 200 =>
              \A c \in CoordTarget : \E b \in coord_req.before :
                  /\ c.latitude = coord_req.body.data["latitude"]
                  /\ c.longitude = coord_req.body.data["longitude"]
                  /\ c.geocoded_at = coord_req.now
                  /\ c = [b EXCEPT !.latitude = c.latitude,
                                   !.longitude = c.longitude,
                                   !.geocoded_at = c.geocoded_at]

(***************************************************************************)
(* Claims about the create mutation (checked under SpecCreate)             *)
(***************************************************************************)

\* C27: create requires authentication and a tenant. CreateCustomer by an
\* unauthenticated principal, or by an authenticated one without a company,
\* is rejected, with a different error in the two cases, stores no customer
\* and publishes no event; an accepted call stores one customer and then makes
\* one publish of crm.customer.created, keyed by the customer id, whose
\* visibility_list is the stored visible_to_company_ids.
C27_CreateRequiresTenant ==
    /\ \A c \in customers : c.created_by_company_id # NoCompany
    /\ \A e \in crm_published :
          \E c \in customers :
              /\ e.key = c.id
              /\ e.topic = "crm.customer.created"
              /\ e.value.visibility_list = c.visible_to_company_ids
    /\ crm_req.kind = "create" =>
          LET user == crm_req.user
              rejected == ~user.is_authenticated \/ user.company_id = NoCompany
          IN  /\ rejected =>
                    /\ crm_req.error # "none"
                    /\ crm_req.result = {}
                    /\ crm_req.published = <<>>
                    /\ \A c \in customers : c.id # crm_req.id
              /\ (~user.is_authenticated) =>
                    crm_req.error = "Authentication required to create customers"
              /\ (user.is_authenticated /\ user.company_id = NoCompany) =>
                    crm_req.error = "User must belong to a company to create customers"
              /\ ~rejected =>
                    /\ crm_req.error = "none"
                    /\ Cardinality(crm_req.result) = 1
                    /\ crm_req.result \subseteq customers
                    /\ Len(crm_req.published) = 1
                    /\ \A c \in crm_req.result :
                          /\ c.id = crm_req.id
                          /\ crm_req.published[1].topic = "crm.customer.created"
                          /\ crm_req.published[1].key = c.id
                          /\ crm_req.published[1].value.visibility_list
                                = c.visible_to_company_ids

\* witness of C27: a customer exists, its event was delivered, and the last
\* call, by an authenticated principal without a company, was rejected
C27_Witness ==
    /\ crm_req.kind = "create"
    /\ crm_req.user.is_authenticated
    /\ crm_req.user.company_id = NoCompany
    /\ crm_req.error = "User must belong to a company to create customers"
    /\ Cardinality(customers) = 1
    /\ Cardinality(crm_published) = 1

(***************************************************************************)
(* Claims about login (checked under SpecLogin)                            *)
(***************************************************************************)

\* the response to bad credentials
BadCredentials == [status |-> 401, error |-> "Invalid credentials", token |-> NoToken]

\* the password of the last request is the one the account was created with
RightPassword ==
    /\ login_req.user.exists
    /\ login_req.user.password = <<"pbkdf2_sha256", login_req.password>>

\* C28: login does not reveal user existence. The response for an email
\* without an account and the response for an account with a wrong password,
\* disabled or not, are the same 401; 403 is returned only for a disabled
\* account with the right password, 400 only when email or password is
\* missing, and a token is issued only with 200.
C28_LoginHidesExistence ==
    login_req.response.status # 0 =>
        LET r == login_req.response
            missing == login_req.email \in {None, ""} \/ login_req.password \in {None, ""}
        IN  /\ r.status \in {200, 400, 401, 403}
            /\ r.status = 400 <=> missing
            /\ (~missing /\ ~login_req.user.exists) => r = BadCredentials
            /\ (~missing /\ login_req.user.exists /\ ~RightPassword) =>
                  r = BadCredentials
            /\ r.status = 403 <=>
                  (~missing /\ RightPassword /\ ~login_req.user.is_active)
            /\ r.status = 200 <=>
                  (~missing /\ RightPassword /\ login_req.user.is_active)
            /\ r.token # NoToken <=> r.status = 200

\* witness of C28: a wrong password on a disabled account is answered like an
\* unknown email, while another address has no account
C28_Witness ==
    /\ login_req.email = "a@test.com"
    /\ login_req.password = "pw2"
    /\ login_req.user.exists
    /\ ~login_req.user.is_active
    /\ login_req.response = BadCredentials
    /\ ~accounts["b@test.com"].exists

(***************************************************************************)
(* Claims about the notification schema (checked under SpecInbox)          *)
(***************************************************************************)

\* the rows the principal of the last request observed when it was made
InboxObserved == {n \in inbox_req.before : Observes(inbox_req.user, n)}

\* those of them the principal had not read
InboxUnread ==
    {n \in InboxObserved :
        \A i \in 1 .. Len(n.read_by_user_ids) :
            n.read_by_user_ids[i] # inbox_req.user.user_id}

\* the count and the mutation follow the visibility of the principal
InboxCountAndMark ==
    /\ inbox_req.kind = "count" => inbox_req.count = Cardinality(InboxUnread)
    /\ inbox_req.kind = "mark" =>
          /\ inbox_req.error = "none" <=>
                \E n \in InboxObserved : n.id = inbox_req.id
          /\ inbox_req.error # "none" => notifications = inbox_req.before
          /\ inbox_req.error = "none" =>
                \A n \in notifications :
                    \/ n \in inbox_req.before
                    \/ /\ n.id = inbox_req.id
                       /\ \E i \in 1 .. Len(n.read_by_user_ids) :
                             n.read_by_user_ids[i] = inbox_req.user.user_id
    /\ (inbox_req.kind # "none" /\ ~inbox_req.user.is_authenticated) =>
          /\ inbox_req.list = <<>>
          /\ inbox_req.count = 0
          /\ inbox_req.error # "none" \/ inbox_req.kind # "mark"

\* C29 as stated: the notifications list holds a notification iff the
\* principal observes it (scope intersects its list, or SYSTEM_ADMIN); the
\* unread count and markNotificationRead follow the same visibility.
C29_NotifVisibilityIff ==
    /\ inbox_req.kind = "list" =>
          SeqToSet(inbox_req.list) = {n.id : n \in InboxObserved}
    /\ InboxCountAndMark

\* C29, amended: the notifications list holds only notifications the
\* principal observes (unread ones when unreadOnly is set), namely the limit
\* newest of them, so all of them when they are at most limit; the unread
\* count and markNotificationRead follow the same visibility.
C29_NotifVisibility ==
    /\ inbox_req.kind = "list" =>
          LET eligible == IF inbox_req.unread_only THEN InboxUnread
                          ELSE InboxObserved
              listed == SeqToSet(inbox_req.list)
          IN  /\ listed \subseteq {n.id : n \in eligible}
              /\ NoDuplicates(inbox_req.list)
              /\ Len(inbox_req.list) =
                    IF Cardinality(eligible) <= inbox_req.limit
                    THEN Cardinality(eligible) ELSE inbox_req.limit
              /\ \A n \in eligible : n.id \notin listed =>
                    \A id \in listed : n.id < id
    /\ InboxCountAndMark

\* witness of C29: a principal with scope {A, B} lists its notifications
\* while one visible to B and one visible to X only exist
C29_Witness ==
    /\ inbox_req.kind = "list"
    /\ inbox_req.user.visible_company_ids = <<"A", "B">>
    /\ inbox_req.limit = 20
    /\ Len(inbox_req.list) = 1
    /\ \E n \in inbox_req.before : n.visible_to_company_ids = <<"X">>
    /\ \E n \in inbox_req.before :
          /\ n.visible_to_company_ids = <<"B">>
          /\ n.id = inbox_req.list[1]

(***************************************************************************)
(* Claims about stop() (checked under SpecStop)                            *)
(***************************************************************************)

\* C30: stop() is idempotent. However often stop() is called on a consumer,
\* no call raises, the broker handle is closed once and the final metrics
\* are logged once.
C30_StopIdempotent ==
    stop_log.stops >= 1 =>
        /\ stop_log.raised = "none"
        /\ stop_log.closes = 1
        /\ stop_log.metrics_logs = 1

(***************************************************************************)
(* Claims about cancellation (checked under SpecCancel)                    *)
(***************************************************************************)

\* C31: cancellation. After stop() has been called, a retry backoff sleep
\* that is in progress does not run into another attempt (no handler
\* invocation begins) and the broker handle, which stop() has closed, is not
\* used for a commit.
C31_Cancellation ==
    [][stop_log.stops > 0 =>
          /\ ~(pc = "sleep" /\ pc' = "attempt")
          /\ ~(pc = "commit" /\ pc' = "poll")]_vars

(***************************************************************************)
(* Claims about the counters of the retry controller (checked under Spec)  *)
(***************************************************************************)

\* C32: retried counter. What a call of the retry controller has added to
\* retried equals the number of backoff sleeps it has performed: a Retryable
\* failure counts only when a retry follows, the exhausted attempt adds to dlq
\* and not to retried.
C32_RetriedEqualsSleeps ==
    (call.result # "none" /\ pc # "stopped") =>
        Delta("messages_retried_total") = Len(sleeps)

(***************************************************************************)
(* Claims about one call of the retry controller as a function of the      *)
(* handler's behaviour (checked under SpecRetry)                           *)
(***************************************************************************)

\* the behaviour in which every RetryableError is replaced by an exception
\* that is neither Retryable nor Permanent
ReplaceRetryable(behaviour) ==
    [i \in DOMAIN behaviour |->
        IF behaviour[i] = "retryable" THEN "other" ELSE behaviour[i]]

\* what a call is compared by: invocations, sleeps, return value, DLQ records
\* and counters
Observed(out) ==
    [invocations |-> out.invocations, sleeps |-> out.sleeps,
     result |-> out.result, sent |-> out.sent, metrics |-> out.metrics]

\* C33: unknown errors follow the Retryable flow. For every configuration and
\* handler behaviour, the call in which each Retryable is replaced by an
\* unclassified exception makes the same number of handler invocations, the
\* same sleeps, returns the same value, sends the same DLQ record and leaves
\* the same counters.
C33_UnknownAsRetryable ==
    retry_req.done =>
        Observed(retry_req.out) =
            Observed(process_with_retry(retry_req.cfg,
                                        ReplaceRetryable(retry_req.behaviour),
                                        Enter(ZeroMetrics)))

\* witness of C33: a handler that raises Retryable on all three attempts of a
\* consumer with max_retries = 2; the message is sent to the DLQ with
\* retry_count = 2 after two sleeps
C33_Witness ==
    /\ retry_req.done
    /\ retry_req.cfg.max_retries = 2
    /\ retry_req.behaviour = <<"retryable", "retryable", "retryable">>
    /\ retry_req.out.invocations = 3
    /\ Len(retry_req.out.sleeps) = 2
    /\ retry_req.out.sent = <<[retry_count |-> 2]>>
    /\ retry_req.out.result = "false"

\* the sleeps of the last call, its configuration and its behaviour
LastSleeps == retry_req.out.sleeps
LastConfig == retry_req.cfg

\* C34: backoff schedule. The sleep after the failed attempt a (0-based,
\* a < max_retries) is min(backoff_base * 2^a, backoff_cap); the sleeps of one
\* call do not decrease; every invocation but the last is followed by a
\* sleep, so none follows the last attempt or a Permanent failure.
C34_BackoffSchedule ==
    retry_req.done =>
        /\ \A i \in 1 .. Len(LastSleeps) :
              /\ retry_req.behaviour[i] \in {"retryable", "other"}
              /\ i - 1 < LastConfig.max_retries
              /\ LastSleeps[i] =
                     IF LastConfig.retry_backoff_base * 2^(i - 1)
                            < LastConfig.retry_backoff_max
                     THEN LastConfig.retry_backoff_base * 2^(i - 1)
                     ELSE LastConfig.retry_backoff_max
        /\ \A i \in 1 .. (Len(LastSleeps) - 1) :
              LastSleeps[i] <= LastSleeps[i + 1]
        /\ Len(LastSleeps) = retry_req.out.invocations - 1
        /\ retry_req.out.result \in {"true", "false"}

\* witness of C34: base 2 and cap 3 with max_retries = 2; Retryable twice,
\* sleeps of 2 and 3 seconds (the second one capped), then Permanent with no
\* sleep after it
C34_Witness ==
    /\ retry_req.done
    /\ LastConfig = [max_retries |-> 2, retry_backoff_base |-> 2,
                     retry_backoff_max |-> 3]
    /\ retry_req.behaviour = <<"retryable", "retryable", "permanent">>
    /\ LastSleeps = <<2, 3>>
    /\ retry_req.out.invocations = 3

\* C35 as stated: the wait before the i-th retry (i >= 1) is at least
\* backoff_base * 2^(i-1) and at most backoff_cap.
C35_BackoffBoundsStated ==
    retry_req.done =>
        \A i \in 1 .. Len(LastSleeps) :
            /\ LastSleeps[i] >= LastConfig.retry_backoff_base * 2^(i - 1)
            /\ LastSleeps[i] <= LastConfig.retry_backoff_max

\* C35, amended: the wait before the i-th retry (i >= 1) is at most
\* backoff_cap, and at least backoff_base * 2^(i-1) or, where that exceeds the
\* cap, at least backoff_cap.
C35_BackoffBounds ==
    retry_req.done =>
        \A i \in 1 .. Len(LastSleeps) :
            /\ LastSleeps[i] <= LastConfig.retry_backoff_max
            /\ \/ LastSleeps[i] >= LastConfig.retry_backoff_base * 2^(i - 1)
               \/ /\ LastConfig.retry_backoff_base * 2^(i - 1)
                         > LastConfig.retry_backoff_max
                  /\ LastSleeps[i] >= LastConfig.retry_backoff_max

\* witness of C35: the second retry of a consumer with base 2 and cap 3 waits
\* 3 seconds, less than 2 * 2^1, and the third attempt succeeds
C35_Witness ==
    /\ retry_req.done
    /\ LastConfig.retry_backoff_base = 2
    /\ LastConfig.retry_backoff_max = 3
    /\ retry_req.behaviour = <<"other", "retryable", "returned">>
    /\ Len(LastSleeps) = 2
    /\ LastSleeps[2] = 3
    /\ retry_req.out.result = "true"

(***************************************************************************)
(* Claims about the metrics lines (checked under SpecMeter)                *)
(***************************************************************************)

\* C36: metrics emission. The metrics lines a consumer has emitted are one
\* for each positive multiple of 100 its processed counter has reached (none
\* for a failure or a DLQ outcome) and one for its being stopped.
C36_MetricsEmission ==
    meter.lines =
        (meter.metrics.messages_processed_total \div MetricsEvery)
            + (IF meter.stops > 0 THEN 1 ELSE 0)

(***************************************************************************)
(* Claims about the scoped reader (checked under SpecScoped)               *)
(***************************************************************************)

\* C37: scoped reader with empty scope. for_user applies no filter only when
\* the role is SYSTEM_ADMIN; for any other role, or none, it returns exactly
\* the rows whose visibility list intersects visible_company_ids, so an empty
\* visible_company_ids yields an empty result.
C37_ScopedReader ==
    scoped_req.done =>
        scoped_req.rows =
            IF scoped_req.user_role = "SYSTEM_ADMIN"
            THEN ScopedRows
            ELSE {r \in ScopedRows :
                     \E c \in SeqToSet(scoped_req.visible_company_ids) :
                         c \in scoped_req.table[r]}

(***************************************************************************)
(* Claims about the descendant traversal (checked under SpecWalk)          *)
(***************************************************************************)

\* C38: descendant traversal terminates. On every hierarchy reachable by
\* creating companies and reassigning parents, get_descendant_ids visits each
\* company at most once (and so ends after at most as many iterations as
\* there are companies).
C38_TraversalVisitsOnce ==
    \A i, j \in 1 .. Len(walk.descendant_ids) :
        walk.descendant_ids[i] = walk.descendant_ids[j] => i = j

(***************************************************************************)
(* Claims about the counters over a consumer's life (checked under Spec)   *)
(***************************************************************************)

\* the records that have reached an outcome: processed, or routed to the DLQ
WithOutcome ==
    {r \in Partitions \X Offsets :
        hist[r[1]][r[2]].succeeded \/ hist[r[1]][r[2]].failedTerminal}

CounterNames == DOMAIN ZeroMetrics

\* C39: counter accounting. The four counters never decrease; failed <= dlq;
\* a call of the retry controller makes at most max_retries + 1 attempts and,
\* when it returns, has added exactly 1 to processed + dlq (to processed when
\* it returns True, to dlq when it returns False); processed + dlq is the
\* number of messages that reached an outcome.
C39_CounterAccounting ==
    /\ [](/\ metrics.messages_failed_total <= metrics.messages_dlq_total
          /\ pc \in {"attempt", "sleep"} =>
                (attempt <= max_retries /\ calls <= max_retries)
          /\ call.result = "true" =>
                /\ Delta("messages_processed_total") = 1
                /\ Delta("messages_dlq_total") = 0
          /\ call.result = "false" =>
                /\ Delta("messages_processed_total") = 0
                /\ Delta("messages_dlq_total") = 1
          /\ metrics.messages_processed_total + metrics.messages_dlq_total
                = Cardinality(WithOutcome))
    /\ [][\A c \in CounterNames : metrics'[c] >= metrics[c]]_vars

\* witness of C39: one message went to the DLQ after max_retries = 2 was
\* exhausted, the next one was processed; processed = 1 and dlq = 1
C39_Witness ==
    /\ max_retries = 2
    /\ metrics.messages_processed_total = 1
    /\ metrics.messages_dlq_total = 1
    /\ metrics.messages_retried_total >= 3
    /\ call.result = "true"
    /\ pc = "poll"

(***************************************************************************)
(* Claims about concurrent read marks (checked under SpecMark)             *)
(***************************************************************************)

\* number of entries of user u in the row's read_by_user_ids
MarkEntries(u) ==
    Cardinality({i \in 1 .. Len(mark_row) : mark_row[i] = u})

\* C40: read marks are not lost. Whatever the interleaving of the users'
\* markNotificationRead calls, every user whose call has finished is in
\* read_by_user_ids exactly once, also after marking twice.
C40_ReadMarksKept ==
    \A u \in MarkUsers :
        mark_call[u].finished >= 1 => MarkEntries(u) = 1

====
